---- MODULE Spec2Model ----
(***************************************************************************)
(* State-machine model of the resilience layer of spotify-playlist-finder: *)
(* the tiered CacheManager, the RateLimiter with its three strategies and  *)
(* middleware, and the ErrorHandler with its recovery strategies.          *)
(* Times are milliseconds as returned by Date.now(); TTLs and windows are  *)
(* seconds, as in the source.                                              *)
(***************************************************************************)
EXTENDS Integers, Sequences, FiniteSets, TLC

VARIABLES
    now,            \* the reading of Date.now()
    \* ---- CacheManager ----
    env,            \* "server" or "client" (import.meta.server / import.meta.client)
    redis,          \* RedisCacheTier.redis is not null
    storage,        \* BrowserCacheTier.storage is not null
    tiersCfg,       \* config.tiers.*.enabled
    maxEntries,     \* config.tiers.memory.maxEntries
    defaultTtl,     \* config.defaultTtl
    mem,            \* MemoryCacheTier.cache, a Map in insertion order
    redisStore,     \* the items held by the redis storage, by key
    browserStore,   \* the cache_ items of window.localStorage, by key
    cacheRes,       \* the outcome of the last CacheManager call
    setCount,       \* history: the number of CacheManager.set calls made so far
    lastSet,        \* history: the last CacheManager.set of the key Watched, live until a delete/clear of it
    gos,            \* the getOrSet calls in flight: position, factory invocations, value returned
    \* ---- RateLimiter ----
    rlCfg,          \* the RateLimitConfig registered under RegisteredName
    states,         \* RateLimiter.states, by derived key
    rlRes,          \* the outcome of the last checkLimit call
    admitLog,       \* history: timestamps of the admissions of the key still inside the trailing window
    winCalls,       \* history: aligned window of the last check and the number of checks made in it
    req,            \* the outcome of the last request that went through the middleware
    bk,             \* one key denied again and again: its backoff config, consecutiveFailures, delays
    race,           \* overlapping checkLimit calls on one key: the state each holds, the stored states
    dist,           \* a distributed config: the shared store's copy of the key's state, the last call's inputs
    metrics,        \* RateLimiter.metrics, next to a count of the results returned
    \* ---- ErrorHandler ----
    errs,           \* the AppError instances: details and recoveryAttempts
    recoveryStrategies, \* ErrorHandler.recoveryStrategies, in registration order
    recoverCalls,   \* history: per instance, how many times recover() received it
    heRes,          \* the outcome of the last handleError call
    \* ---- POST /api/spotify/search ----
    flight,         \* overlapping cache calls on one key: the storage requests in flight, call positions
    srch            \* the cached SearchResult of the request's key and the outcome of the last request

cacheVars == <<env, redis, storage, tiersCfg, maxEntries, defaultTtl, mem, redisStore, browserStore, cacheRes, setCount, lastSet, gos>>
rateVars == <<rlCfg, states, rlRes, admitLog, winCalls, req, bk, race, dist, metrics>>
errVars == <<errs, recoveryStrategies, recoverCalls, heRes, srch, flight>>
vars == <<now, cacheVars, rateVars, errVars>>

----------------------------------------------------------------------------
(* Bounds of the model *)

\* the clock starts here (any reading well past the epoch) ...
StartSec == 10
\* ... and is advanced at most this many times
MaxTicks == 4
\* CacheManager.set is called at most this many times
MaxSets == 2
\* the largest maxEntries configured
MaxMaxEntries == 2

MsPerSec == 1000
\* one advance of the clock: half a second
TickMs == MsPerSec \div 2
StartMs == StartSec * MsPerSec
EndMs == StartMs + MaxTicks * TickMs

Keys == {"k1", "k2"}
\* the key whose last set the history variable lastSet follows
Watched == "k1"
Values == {"v1", "v2"}
\* ttl arguments of set, in seconds; 0 stands for an omitted or zero ttl
Ttls == {0, 1, 2}
\* the set calls explored for the key Watched: both values with ttl 1 and with either outcome of
\* the storage writes, and the first value with an omitted and with a longer ttl
WatchedSets ==
    {[value |-> v, ttl |-> 1, fail |-> f] : v \in Values, f \in BOOLEAN}
    \cup {[value |-> "v1", ttl |-> ttl, fail |-> FALSE] : ttl \in Ttls}
\* the value and ttl written under the keys other than Watched
OtherValue == "v1"
OtherTtl == 1
DefaultTtls == {1}
NoPattern == "*"

Min(a, b) == IF a < b THEN a ELSE b
Max(a, b) == IF a > b THEN a ELSE b
\* Math.max(0, Math.ceil(a / b)) for b > 0
CeilDivPos(a, b) == IF a <= 0 THEN 0 ELSE (a + b - 1) \div b

----------------------------------------------------------------------------
(* CacheTier *)

\* the entry of generateEntry; createdAt, accessCount, compressed, size and tags, which no tier
\* reads back, are not carried
generateEntry(key, value, ttl, t) ==
    [key |-> key, value |-> value, expiresAt |-> t + ttl * MsPerSec,
     lastAccessed |-> t]

\* a test that finds no entry expired
isExpiredNever(entry, t) == FALSE

\* isExpired with the comparison turned around
isExpiredInverted(entry, t) == t < entry.expiresAt

isExpired(entry, t) == t > entry.expiresAt

Without(store, k) == [x \in DOMAIN store \ {k} |-> store[x]]
With(store, k, e) == [x \in DOMAIN store \cup {k} |-> IF x = k THEN e ELSE store[x]]
EmptyStore == [x \in {} |-> 0]

(* MemoryCacheTier: the Map as a sequence of entries in insertion order *)
MemHas(m, k) == \E i \in 1..Len(m) : m[i].key = k
MemIndex(m, k) == CHOOSE i \in 1..Len(m) : m[i].key = k
MemRemoveAt(m, i) == SubSeq(m, 1, i - 1) \o SubSeq(m, i + 1, Len(m))
MemDelete(m, k) == IF MemHas(m, k) THEN MemRemoveAt(m, MemIndex(m, k)) ELSE m
\* Map.set: an existing key keeps its position, a new key goes last
MemPut(m, e) ==
    IF MemHas(m, e.key) THEN [m EXCEPT ![MemIndex(m, e.key)] = e] ELSE Append(m, e)

shouldEvict(m, cap) == Len(m) >= cap

\* the scan of evictLeastRecentlyUsed: index of oldestKey (0 for null) after entries i..Len(m)
RECURSIVE OldestScan(_, _, _, _)
OldestScan(m, i, oldestIdx, oldestTime) ==
    IF i > Len(m) THEN oldestIdx
    ELSE IF m[i].lastAccessed < oldestTime
         THEN OldestScan(m, i + 1, i, m[i].lastAccessed)
         ELSE OldestScan(m, i + 1, oldestIdx, oldestTime)

evictLeastRecentlyUsed(m, t) ==
    LET oldest == OldestScan(m, 1, 0, t)
    IN IF oldest # 0 THEN MemRemoveAt(m, oldest) ELSE m

MemoryGet(m, k, t) ==
    IF ~MemHas(m, k) THEN [cache |-> m, hit |-> FALSE, value |-> "", expiresAt |-> 0]
    ELSE LET i == MemIndex(m, k) IN
         IF isExpired(m[i], t)
         THEN [cache |-> MemRemoveAt(m, i), hit |-> FALSE, value |-> "", expiresAt |-> 0]
         ELSE [cache |-> [m EXCEPT ![i].lastAccessed = t],
               hit |-> TRUE, value |-> m[i].value, expiresAt |-> m[i].expiresAt]

MemorySet(m, cap, k, v, ttl, t) ==
    LET entry == generateEntry(k, v, ttl, t)
        kept == IF shouldEvict(m, cap) THEN evictLeastRecentlyUsed(m, t) ELSE m
    IN MemPut(kept, entry)

\* clear(pattern): the keys the RegExp matches; without a pattern, everything
Matches(pattern, k) == pattern = NoPattern \/ pattern = k
RECURSIVE MemoryClear(_, _)
MemoryClear(m, pattern) ==
    IF m = <<>> THEN <<>>
    ELSE IF Matches(pattern, Head(m).key) THEN MemoryClear(Tail(m), pattern)
         ELSE <<Head(m)>> \o MemoryClear(Tail(m), pattern)

(* RedisCacheTier and BrowserCacheTier: a keyed store behind a handle that may be
   null (conn = FALSE); fail = TRUE when the storage call of this operation throws.
   A throw leaves the store as it was and reaches the caller as an exception.
   The stored entry keeps key, value and expiresAt: lastAccessed, which get rewrites
   in the store, is read by the in-process tier only. *)
StoreEntry(k, v, ttl, t) ==
    [key |-> k, value |-> v, expiresAt |-> generateEntry(k, v, ttl, t).expiresAt]

StoreGet(store, conn, fail, k, t) ==
    IF ~conn THEN [store |-> store, hit |-> FALSE, threw |-> FALSE, value |-> "", expiresAt |-> 0]
    ELSE IF fail THEN [store |-> store, hit |-> FALSE, threw |-> TRUE, value |-> "", expiresAt |-> 0]
    ELSE IF k \notin DOMAIN store
         THEN [store |-> store, hit |-> FALSE, threw |-> FALSE, value |-> "", expiresAt |-> 0]
    ELSE IF isExpired(store[k], t)
         THEN [store |-> Without(store, k), hit |-> FALSE, threw |-> FALSE, value |-> "", expiresAt |-> 0]
    ELSE [store |-> store,
          hit |-> TRUE, threw |-> FALSE, value |-> store[k].value, expiresAt |-> store[k].expiresAt]

StoreSet(store, conn, fail, k, v, ttl, t) ==
    IF ~conn \/ fail THEN store ELSE With(store, k, StoreEntry(k, v, ttl, t))

\* set on a live handle whose storage call throws ends in a throw (the catch clause throws)
StoreSetThrows(conn, fail) == conn /\ fail

StoreDelete(store, conn, fail, k) ==
    IF ~conn \/ fail THEN store ELSE Without(store, k)

\* what RedisCacheTier.delete and BrowserCacheTier.delete report to CacheManager.delete: false
\* without a handle or when the storage call throws, true otherwise, stored key or not
StoreDeleteRet(store, conn, fail, k) == conn /\ ~fail

\* RedisCacheTier.clear: a pattern clears nothing, no pattern clears every key
RedisClear(store, conn, fail, pattern) ==
    IF ~conn \/ fail \/ pattern # NoPattern THEN store ELSE EmptyStore

\* the count a tier's clear reports: the entries it removed
ClearCount(before, after) == Cardinality(DOMAIN before \ DOMAIN after)

BrowserClear(store, conn, fail, pattern) ==
    IF ~conn \/ fail THEN store
    ELSE [x \in {k \in DOMAIN store : ~Matches(pattern, k)} |-> store[x]]

(* CacheManager *)

\* cacheRes before any call at this clock reading. op is the method called; hit, value, tier and
\* consulted describe a get; ok is the boolean returned by delete and exists; count the number
\* returned by clear; counted tells whether a tier's hit or miss counter moved;
\* raised tells whether the call threw; failed is the input: the storage calls threw
NoCacheRes ==
    [op |-> "none", key |-> "", hit |-> FALSE, value |-> "", tier |-> "none", consulted |-> {},
     ok |-> FALSE, count |-> 0, counted |-> FALSE, raised |-> FALSE, failed |-> FALSE]

\* the remaining time rounded down to whole seconds
remainingTtlFloor(expiresAt, t) == IF expiresAt <= t THEN 0 ELSE (expiresAt - t) \div MsPerSec

\* promoteToHigherTiers: the ttl handed to the faster tiers
remainingTtl(expiresAt, t) == CeilDivPos(expiresAt - t, MsPerSec)

\* a get that returns the slower tier's entry and copies it nowhere
PromoteToMemorySkipped(m, k, value, expiresAt, t) == m

\* promoteToHigherTiers, tier by tier: set(key, entry.value, remainingTtl) on a faster tier
PromoteToMemory(m, k, value, expiresAt, t) ==
    IF tiersCfg.memory THEN MemorySet(m, maxEntries, k, value, remainingTtl(expiresAt, t), t) ELSE m

PromoteToRedis(store, fail, k, value, expiresAt, t) ==
    IF tiersCfg.redis THEN StoreSet(store, redis, fail, k, value, remainingTtl(expiresAt, t), t) ELSE store

Miss(store) == [store |-> store, hit |-> FALSE, threw |-> FALSE, value |-> "", expiresAt |-> 0]

\* a catch clause that passes the tier's error on to the caller of get
GetRethrowsAll(threw) == threw

\* CacheManager.get, the catch (error) clause around each tier's get: it records, logs and continues
GetRethrows(threw) == FALSE

\* CacheManager.get: the tiers in the order of initializeTiers (memory, redis, browser);
\* the first hit is promoted to every tier before it and returned; a tier that throws is skipped
CacheManagerGet(k, fail, t) ==
    LET m1 == IF tiersCfg.memory THEN MemoryGet(mem, k, t)
              ELSE [cache |-> mem, hit |-> FALSE, value |-> "", expiresAt |-> 0]
        c1 == IF tiersCfg.memory THEN {"memory"} ELSE {}
    IN IF m1.hit
       THEN [mem |-> m1.cache, redisStore |-> redisStore, browserStore |-> browserStore,
             hit |-> TRUE, value |-> m1.value, tier |-> "memory", consulted |-> c1,
             raised |-> FALSE]
       ELSE
       LET r2 == IF tiersCfg.redis THEN StoreGet(redisStore, redis, fail, k, t) ELSE Miss(redisStore)
           c2 == IF tiersCfg.redis THEN c1 \cup {"redis"} ELSE c1
       IN IF r2.hit
          THEN [mem |-> PromoteToMemory(m1.cache, k, r2.value, r2.expiresAt, t),
                redisStore |-> r2.store, browserStore |-> browserStore,
                hit |-> TRUE, value |-> r2.value, tier |-> "redis", consulted |-> c2,
                raised |-> FALSE]
          ELSE IF GetRethrows(r2.threw)
          THEN [mem |-> m1.cache, redisStore |-> r2.store, browserStore |-> browserStore,
                hit |-> FALSE, value |-> "", tier |-> "none", consulted |-> c2, raised |-> TRUE]
          ELSE
          LET b3 == IF tiersCfg.browser THEN StoreGet(browserStore, storage, fail, k, t)
                    ELSE Miss(browserStore)
              c3 == IF tiersCfg.browser THEN c2 \cup {"browser"} ELSE c2
          IN IF b3.hit
             THEN [mem |-> PromoteToMemory(m1.cache, k, b3.value, b3.expiresAt, t),
                   redisStore |-> PromoteToRedis(r2.store, fail, k, b3.value, b3.expiresAt, t),
                   browserStore |-> b3.store,
                   hit |-> TRUE, value |-> b3.value, tier |-> "browser", consulted |-> c3,
                   raised |-> FALSE]
             ELSE [mem |-> m1.cache, redisStore |-> r2.store, browserStore |-> b3.store,
                   hit |-> FALSE, value |-> "", tier |-> "none", consulted |-> c3,
                   raised |-> GetRethrows(b3.threw)]

\* history of the key Watched before any set, and after a delete or clear of it
NoSet == [live |-> FALSE, value |-> "", ttl |-> 0, at |-> 0, evicted |-> FALSE, failed |-> FALSE]

\* history: the in-process tier dropped the key Watched while another key was written to it
EvictedBy(k, m) == k # Watched /\ MemHas(mem, Watched) /\ ~MemHas(m, Watched)

\* CacheManager.set: ttl || defaultTtl, then the write on every tier
effectiveTtl(ttl) == IF ttl = 0 THEN defaultTtl ELSE ttl

GetStep(k, fail) ==
    /\ LET g == CacheManagerGet(k, fail, now) IN
       /\ mem' = g.mem
       /\ redisStore' = g.redisStore
       /\ browserStore' = g.browserStore
       /\ cacheRes' = [NoCacheRes EXCEPT !.op = "get", !.key = k, !.hit = g.hit, !.value = g.value,
                                         !.tier = g.tier, !.consulted = g.consulted,
                                         !.raised = g.raised, !.failed = fail]
       /\ lastSet' = [lastSet EXCEPT !.evicted = @ \/ (lastSet.live /\ EvictedBy(k, g.mem))]
    /\ UNCHANGED <<now, env, redis, storage, tiersCfg, maxEntries, defaultTtl, setCount, rateVars, errVars>>

Get(k, fail) == GetStep(k, fail) /\ UNCHANGED gos

\* a catch clause that passes the tier's error on to the caller of set
SetRethrowsAll(threw) == threw

\* CacheManager.set, the catch clause around each tier's write: it records and logs
SetRethrows(threw) == FALSE

\* CacheManager.set: every tier's write runs in its own try block under Promise.allSettled
CacheManagerSet(k, v, ttl, fail, t) ==
    [mem |-> IF tiersCfg.memory THEN MemorySet(mem, maxEntries, k, v, effectiveTtl(ttl), t) ELSE mem,
     redisStore |-> IF tiersCfg.redis
                    THEN StoreSet(redisStore, redis, fail, k, v, effectiveTtl(ttl), t)
                    ELSE redisStore,
     browserStore |-> IF tiersCfg.browser
                      THEN StoreSet(browserStore, storage, fail, k, v, effectiveTtl(ttl), t)
                      ELSE browserStore,
     raised |-> SetRethrows(\/ tiersCfg.redis /\ StoreSetThrows(redis, fail)
                            \/ tiersCfg.browser /\ StoreSetThrows(storage, fail))]

SetStep(k, v, ttl, fail) ==
    /\ setCount < MaxSets
    /\ setCount' = setCount + 1
    /\ LET r == CacheManagerSet(k, v, ttl, fail, now) IN
       /\ mem' = r.mem
       /\ redisStore' = r.redisStore
       /\ browserStore' = r.browserStore
       /\ cacheRes' = [NoCacheRes EXCEPT !.op = "set", !.key = k, !.value = v,
                                         !.raised = r.raised, !.failed = fail]
    /\ lastSet' = IF k = Watched
                  THEN [live |-> TRUE, value |-> v, ttl |-> ttl, at |-> now, evicted |-> FALSE,
                        failed |-> fail /\ (redis \/ storage)]
                  ELSE [lastSet EXCEPT !.evicted = @ \/ (lastSet.live /\ EvictedBy(k, mem'))]
    /\ UNCHANGED <<now, env, redis, storage, tiersCfg, maxEntries, defaultTtl, rateVars, errVars>>

Set(k, v, ttl, fail) == SetStep(k, v, ttl, fail) /\ UNCHANGED gos

\* CacheManager.delete: every tier's delete, anySuccess = some tier reported true
CacheManagerDelete(k, fail) ==
    [mem |-> IF tiersCfg.memory THEN MemDelete(mem, k) ELSE mem,
     redisStore |-> IF tiersCfg.redis THEN StoreDelete(redisStore, redis, fail, k) ELSE redisStore,
     browserStore |-> IF tiersCfg.browser THEN StoreDelete(browserStore, storage, fail, k)
                      ELSE browserStore,
     ok |-> \/ tiersCfg.memory /\ MemHas(mem, k)
            \/ tiersCfg.redis /\ StoreDeleteRet(redisStore, redis, fail, k)
            \/ tiersCfg.browser /\ StoreDeleteRet(browserStore, storage, fail, k)]

Delete(k, fail) ==
    /\ LET r == CacheManagerDelete(k, fail) IN
       /\ mem' = r.mem
       /\ redisStore' = r.redisStore
       /\ browserStore' = r.browserStore
       /\ cacheRes' = [NoCacheRes EXCEPT !.op = "delete", !.key = k, !.ok = r.ok, !.failed = fail]
    /\ lastSet' = IF k = Watched THEN NoSet ELSE lastSet
    /\ UNCHANGED <<now, env, redis, storage, tiersCfg, maxEntries, defaultTtl, setCount, rateVars, errVars, gos>>

\* CacheManager.clear: every tier's clear, totalDeleted = the sum of the counts reported
CacheManagerClear(pattern, fail) ==
    LET m == IF tiersCfg.memory THEN MemoryClear(mem, pattern) ELSE mem
        r == IF tiersCfg.redis THEN RedisClear(redisStore, redis, fail, pattern) ELSE redisStore
        b == IF tiersCfg.browser THEN BrowserClear(browserStore, storage, fail, pattern)
             ELSE browserStore
    IN [mem |-> m, redisStore |-> r, browserStore |-> b,
        count |-> (Len(mem) - Len(m)) + ClearCount(redisStore, r) + ClearCount(browserStore, b)]

Clear(pattern, fail) ==
    /\ LET r == CacheManagerClear(pattern, fail) IN
       /\ mem' = r.mem
       /\ redisStore' = r.redisStore
       /\ browserStore' = r.browserStore
       /\ cacheRes' = [NoCacheRes EXCEPT !.op = "clear", !.key = pattern, !.count = r.count,
                                         !.failed = fail]
    /\ lastSet' = IF Matches(pattern, Watched) THEN NoSet ELSE lastSet
    /\ UNCHANGED <<now, env, redis, storage, tiersCfg, maxEntries, defaultTtl, setCount, rateVars, errVars, gos>>

\* invalidateByTags: the pattern handed to clear for one tag, `*${tag}*`
TagPattern(tag) == <<"*", tag, "*">>
\* new RegExp(pattern) throws a SyntaxError when the pattern opens with a quantifier
RegExpThrows(pattern) == Head(pattern) = "*"
\* the keys of the model embed one tag each: their own name
Embeds(k, tag) == k = tag

\* CacheManager.clear(`*${tag}*`): the in-process tier builds the RegExp before its loop and its
\* throw is caught by CacheManager.clear, which adds nothing; the redis tier removes nothing when
\* a pattern is given; the browser tier builds the RegExp inside its try and returns 0 from its
\* catch before any removal
TagClear(tag) ==
    LET throws == RegExpThrows(TagPattern(tag))
        m == IF tiersCfg.memory /\ ~throws THEN MemoryClear(mem, tag) ELSE mem
        r == IF tiersCfg.redis THEN RedisClear(redisStore, redis, FALSE, tag) ELSE redisStore
        b == IF tiersCfg.browser /\ ~throws THEN BrowserClear(browserStore, storage, FALSE, tag)
             ELSE browserStore
    IN [mem |-> m, redisStore |-> r, browserStore |-> b,
        count |-> (Len(mem) - Len(m)) + ClearCount(redisStore, r) + ClearCount(browserStore, b)]

\* CacheManager.invalidateByTags([tag])
InvalidateByTags(tag) ==
    /\ LET r == TagClear(tag) IN
       /\ mem' = r.mem
       /\ redisStore' = r.redisStore
       /\ browserStore' = r.browserStore
       /\ cacheRes' = [NoCacheRes EXCEPT !.op = "invalidate", !.key = tag, !.count = r.count]
       /\ lastSet' = IF Embeds(Watched, tag) /\ r.count > 0 THEN NoSet ELSE lastSet
    /\ UNCHANGED <<now, env, redis, storage, tiersCfg, maxEntries, defaultTtl, setCount, rateVars, errVars, gos>>

\* an exists that looks the key up with the tier's get: counts a hit or a miss, rewrites
\* lastAccessed and drops an expired entry
MemoryExistsByGet(m, k, t) ==
    LET g == MemoryGet(m, k, t) IN [cache |-> g.cache, ok |-> g.hit, counted |-> TRUE]

\* MemoryCacheTier.exists: reads the Map and isExpired; neither the entry nor stats is written
MemoryExists(m, k, t) ==
    [cache |-> m, ok |-> MemHas(m, k) /\ ~isExpired(m[MemIndex(m, k)], t), counted |-> FALSE]

\* RedisCacheTier.exists and BrowserCacheTier.exists: false without a handle and when the
\* storage call throws; the stored item is parsed and tested with isExpired, nothing is written
StoreExists(store, conn, fail, k, t) ==
    [store |-> store,
     ok |-> conn /\ ~fail /\ k \in DOMAIN store /\ ~isExpired(store[k], t),
     counted |-> FALSE]

\* CacheManager.exists: the tiers in order, true at the first tier that reports true
CacheManagerExists(k, fail, t) ==
    LET m == IF tiersCfg.memory THEN MemoryExists(mem, k, t)
             ELSE [cache |-> mem, ok |-> FALSE, counted |-> FALSE]
        r == IF tiersCfg.redis /\ ~m.ok THEN StoreExists(redisStore, redis, fail, k, t)
             ELSE [store |-> redisStore, ok |-> FALSE, counted |-> FALSE]
        b == IF tiersCfg.browser /\ ~m.ok /\ ~r.ok THEN StoreExists(browserStore, storage, fail, k, t)
             ELSE [store |-> browserStore, ok |-> FALSE, counted |-> FALSE]
    IN [mem |-> m.cache, redisStore |-> r.store, browserStore |-> b.store,
        ok |-> m.ok \/ r.ok \/ b.ok,
        counted |-> m.counted \/ r.counted \/ b.counted]

Exists(k, fail) ==
    /\ LET r == CacheManagerExists(k, fail, now) IN
       /\ mem' = r.mem
       /\ redisStore' = r.redisStore
       /\ browserStore' = r.browserStore
       /\ cacheRes' = [NoCacheRes EXCEPT !.op = "exists", !.key = k, !.ok = r.ok,
                                         !.counted = r.counted, !.failed = fail]
    /\ UNCHANGED <<now, env, redis, storage, tiersCfg, maxEntries, defaultTtl, setCount, lastSet,
                   rateVars, errVars, gos>>

(* CacheManager.getOrSet: await this.get, then await factory(), then await this.set. Each await
   lets another call run, so one call is three steps: the get, the factory, the set. *)

\* the calls of getOrSet(Watched, factory, GosTtl) that may overlap, and what each factory produces
Callers == {"c1", "c2"}
Produced(c) == IF c = "c1" THEN "v1" ELSE "v2"
GosTtl == 1
NoCall == [pc |-> "start", hit |-> FALSE, calls |-> 0, ret |-> "", stored |-> FALSE]
NoCalls == [c \in Callers |-> NoCall]

\* a getOrSet that calls its factory whatever get returned
FactoryAlways(hit) == TRUE

\* getOrSet: `if (cached !== null) return cached`, the factory runs only past this line
FactoryNeeded(hit) == ~hit

\* some connected tier holds the key with this value in the stores a set produced
StoredIn(r, k, v) ==
    \/ tiersCfg.memory /\ MemHas(r.mem, k) /\ r.mem[MemIndex(r.mem, k)].value = v
    \/ tiersCfg.redis /\ k \in DOMAIN r.redisStore /\ r.redisStore[k].value = v
    \/ tiersCfg.browser /\ k \in DOMAIN r.browserStore /\ r.browserStore[k].value = v

GosGet(c) ==
    /\ gos[c].pc = "start"
    /\ GetStep(Watched, FALSE)
    /\ LET g == CacheManagerGet(Watched, FALSE, now) IN
       gos' = [gos EXCEPT ![c] =
                  IF FactoryNeeded(g.hit)
                  THEN [@ EXCEPT !.pc = "factory", !.hit = g.hit]
                  ELSE [@ EXCEPT !.pc = "done", !.hit = g.hit, !.ret = g.value]]

GosFactory(c) ==
    /\ gos[c].pc = "factory"
    /\ gos' = [gos EXCEPT ![c] = [@ EXCEPT !.pc = "store", !.calls = @ + 1]]
    /\ UNCHANGED <<now, env, redis, storage, tiersCfg, maxEntries, defaultTtl, mem, redisStore,
                   browserStore, cacheRes, setCount, lastSet, rateVars, errVars>>

GosStore(c, fail) ==
    /\ gos[c].pc = "store"
    /\ SetStep(Watched, Produced(c), GosTtl, fail)
    /\ gos' = [gos EXCEPT ![c] =
                  [@ EXCEPT !.pc = "done", !.ret = Produced(c),
                            !.stored = StoredIn(CacheManagerSet(Watched, Produced(c), GosTtl, fail, now),
                                                Watched, Produced(c))]]

----------------------------------------------------------------------------
(* The in-process tier alone: MemoryCacheTier.set and get on a tier of maxEntries entries *)

\* MemoryCacheTier.set is called at most this many times
MaxTierSets == 3
MaxMultiplier == 3
MaxDistCalls == 3
MaxLiveTicks == 8

TierSet(k) ==
    /\ setCount < MaxTierSets
    /\ setCount' = setCount + 1
    /\ mem' = MemorySet(mem, maxEntries, k, OtherValue, OtherTtl, now)
    /\ cacheRes' = [NoCacheRes EXCEPT !.op = "set", !.key = k, !.value = OtherValue]
    /\ UNCHANGED <<now, env, redis, storage, tiersCfg, maxEntries, defaultTtl, redisStore,
                   browserStore, lastSet, gos, rateVars, errVars>>

TierGet(k) ==
    /\ LET g == MemoryGet(mem, k, now) IN
       /\ mem' = g.cache
       /\ cacheRes' = [NoCacheRes EXCEPT !.op = "get", !.key = k, !.hit = g.hit, !.value = g.value,
                                         !.tier = IF g.hit THEN "memory" ELSE "none",
                                         !.consulted = {"memory"}]
    /\ UNCHANGED <<now, env, redis, storage, tiersCfg, maxEntries, defaultTtl, redisStore,
                   browserStore, setCount, lastSet, gos, rateVars, errVars>>

----------------------------------------------------------------------------
(* CacheManager calls that overlap on one key, server side: the in-process tier in front of the
   redis tier. A call runs up to its first `await this.redis...` in one piece: the in-process
   tier's get, set and delete have no await inside. The storage requests are answered in the
   order they were made; the call resumes when its request is answered and runs on to its next
   request or to its end. fail = TRUE when the request throws. *)

Setters == {"s1", "s2"}
FlightCalls == Setters \cup {"g", "d"}
ValueOf(c) == IF c = "s1" THEN "v1" ELSE "v2"
\* the value redis holds from before the process started
EarlierValue == "v0"
NoEntry == [key |-> "", value |-> "", expiresAt |-> 0]
Absent == ""
NoFlight ==
    [queue |-> <<>>, pc |-> [c \in FlightCalls |-> "idle"], ret |-> Absent,
     setSince |-> FALSE, deleted |-> FALSE, threw |-> FALSE]
StorageRequest(c, op, entry) == [by |-> c, op |-> op, entry |-> entry]
FlightFrame == UNCHANGED <<now, env, redis, storage, tiersCfg, maxEntries, defaultTtl, browserStore,
                           cacheRes, setCount, lastSet, gos, rateVars, errs, recoveryStrategies,
                           recoverCalls, heRes, srch>>

\* CacheManager.set up to RedisCacheTier.set's `await this.redis.setItem`
FlightSet(c) ==
    /\ c \in Setters /\ flight.pc[c] = "idle"
    /\ mem' = MemorySet(mem, maxEntries, Watched, ValueOf(c), effectiveTtl(OtherTtl), now)
    /\ flight' = [flight EXCEPT
                     !.queue = Append(@, StorageRequest(c, "put", StoreEntry(Watched, ValueOf(c), effectiveTtl(OtherTtl), now))),
                     !.pc[c] = "wait",
                     !.setSince = @ \/ flight.pc["d"] = "wait",
                     !.deleted = FALSE]
    /\ UNCHANGED redisStore /\ FlightFrame

\* CacheManager.get up to RedisCacheTier.get's `await this.redis.getItem`; a hit of the
\* in-process tier returns at once
FlightGet ==
    /\ flight.pc["g"] = "idle"
    /\ LET m == MemoryGet(mem, Watched, now) IN
       /\ mem' = m.cache
       /\ flight' = IF m.hit
                    THEN [flight EXCEPT !.pc["g"] = "done", !.ret = m.value]
                    ELSE [flight EXCEPT !.pc["g"] = "wait",
                                        !.queue = Append(@, StorageRequest("g", "get", NoEntry))]
    /\ UNCHANGED redisStore /\ FlightFrame

\* CacheManager.delete up to RedisCacheTier.delete's `await this.redis.removeItem`
FlightDelete ==
    /\ flight.pc["d"] = "idle"
    /\ mem' = MemDelete(mem, Watched)
    /\ flight' = [flight EXCEPT !.pc["d"] = "wait",
                                !.queue = Append(@, StorageRequest("d", "remove", NoEntry)),
                                !.setSince = \E c \in Setters : flight.pc[c] = "wait"]
    /\ UNCHANGED redisStore /\ FlightFrame

\* the oldest request is answered and its call resumes
Answer(fail) ==
    /\ flight.queue # <<>>
    /\ LET h == Head(flight.queue)
           rest == Tail(flight.queue)
           threw == flight.threw \/ fail
           stored == Watched \in DOMAIN redisStore
       IN \/ /\ h.by \in Setters
             \* RedisCacheTier.set ends; CacheManager.set's catch clause absorbs a throw
             /\ redisStore' = IF fail THEN redisStore ELSE With(redisStore, Watched, h.entry)
             /\ mem' = mem
             /\ flight' = [flight EXCEPT !.threw = threw, !.queue = rest, !.pc[h.by] = "done"]
          \/ /\ h.by = "d"
             \* RedisCacheTier.delete ends and CacheManager.delete returns
             /\ redisStore' = StoreDelete(redisStore, TRUE, fail, Watched)
             /\ mem' = mem
             /\ flight' = [flight EXCEPT !.threw = threw, !.queue = rest, !.pc["d"] = "done",
                                         !.deleted = ~flight.setSince]
          \/ /\ h.by = "g" /\ h.op = "get"
             \* RedisCacheTier.get after getItem: no data, an expired entry (removeItem) or a
             \* live one (accessCount, lastAccessed, then setItem of the entry read)
             /\ redisStore' = redisStore
             /\ mem' = mem
             /\ flight' =
                   IF fail \/ ~stored
                   THEN [flight EXCEPT !.threw = threw, !.queue = rest, !.pc["g"] = "done", !.ret = Absent]
                   ELSE IF isExpired(redisStore[Watched], now)
                   THEN [flight EXCEPT !.threw = threw, !.queue = Append(rest, StorageRequest("g", "remove", NoEntry))]
                   ELSE [flight EXCEPT !.threw = threw, !.queue = Append(rest, StorageRequest("g", "put", redisStore[Watched]))]
          \/ /\ h.by = "g" /\ h.op = "remove"
             /\ redisStore' = StoreDelete(redisStore, TRUE, fail, Watched)
             /\ mem' = mem
             /\ flight' = [flight EXCEPT !.threw = threw, !.queue = rest, !.pc["g"] = "done", !.ret = Absent]
          \/ /\ h.by = "g" /\ h.op = "put"
             \* the write-back is answered: RedisCacheTier.get returns the entry, CacheManager.get
             \* starts promoteToHigherTiers (the in-process tier's set runs at once) and returns
             /\ redisStore' = IF fail THEN redisStore ELSE With(redisStore, Watched, h.entry)
             /\ mem' = IF fail THEN mem
                       ELSE PromoteToMemory(mem, Watched, h.entry.value, h.entry.expiresAt, now)
             /\ flight' = [flight EXCEPT !.threw = threw, !.queue = rest, !.pc["g"] = "done",
                                         !.ret = IF fail THEN Absent ELSE h.entry.value]
    /\ FlightFrame

----------------------------------------------------------------------------
(* RateLimiter *)

\* checkLimit is called at most this many times inside one aligned window
MaxWinCalls == 4
\* the largest `requests` configured
MaxRequests == 2

RegisteredName == "search"
UnknownName == "missing"
LimitNames == {RegisteredName, UnknownName}
Strategies == {"token-bucket", "sliding-window", "fixed-window"}
\* Math.random() in calculateDelay: the factor 0.5 + random * 0.5, in percent
JitterPercents == {50, 75, 99}

NoBurst == [enabled |-> FALSE, multiplier |-> 1]
Bursts == {NoBurst, [enabled |-> TRUE, multiplier |-> 2]}
NoBackoff == [enabled |-> FALSE, strategy |-> "linear", baseDelay |-> 0, maxDelay |-> 0, jitter |-> FALSE]
Backoffs == {NoBackoff,
             [enabled |-> TRUE, strategy |-> "linear", baseDelay |-> 500, maxDelay |-> 1000, jitter |-> FALSE],
             [enabled |-> TRUE, strategy |-> "exponential", baseDelay |-> 1000, maxDelay |-> 2000, jitter |-> TRUE],
             [enabled |-> TRUE, strategy |-> "fibonacci", baseDelay |-> 500, maxDelay |-> 1500, jitter |-> FALSE]}
RateLimitConfigs ==
    [requests : 1..MaxRequests, window : {1}, strategy : Strategies, burst : Bursts, backoff : Backoffs]

Contexts == {[userId |-> "u1", ip |-> "10.0.0.1", endpoint |-> "/api/spotify/search"]}
\* the contexts of the calls that are compared for the key they are given: with and without
\* userId, ip and endpoint, and one userId that holds the text of an endpoint part
KeyContexts ==
    Contexts \cup
    {[userId |-> "u1", ip |-> "", endpoint |-> "/api/spotify/search"],
     [userId |-> "", ip |-> "10.0.0.1", endpoint |-> "/api/spotify/search"],
     [userId |-> "u1", ip |-> "10.0.0.1", endpoint |-> ""],
     [userId |-> "u1:endpoint:/api/spotify/search", ip |-> "", endpoint |-> ""]}
NoContext == [userId |-> "", ip |-> "", endpoint |-> ""]

\* generateKey: limitName, then user:<id> or else ip:<ip>, then endpoint:<path>
RECURSIVE Join(_)
Join(parts) == IF Len(parts) = 1 THEN parts[1] ELSE parts[1] \o ":" \o Join(Tail(parts))
generateKey(limitName, context) ==
    Join(<<limitName>>
         \o (IF context.userId # "" THEN <<"user:" \o context.userId>>
             ELSE IF context.ip # "" THEN <<"ip:" \o context.ip>> ELSE <<>>)
         \o (IF context.endpoint # "" THEN <<"endpoint:" \o context.endpoint>> ELSE <<>>))

\* getState: the state a key starts from (0 stands for an undefined backoffUntil / burstTokens)
FreshState ==
    [tokens |-> 0, lastRefill |-> 0, requestHistory |-> <<>>, burstTokens |-> 0,
     backoffUntil |-> 0, consecutiveFailures |-> 0]

getState(key) == IF key \in DOMAIN states THEN states[key] ELSE FreshState

\* retryAfter rounded down to whole seconds
calculateRetryAfterFloor(resetTime, t) == Max(0, (resetTime - t) \div MsPerSec)

calculateRetryAfter(resetTime, t) == CeilDivPos(resetTime - t, MsPerSec)

RECURSIVE SelectNewer(_, _)
SelectNewer(history, cutoff) ==
    IF history = <<>> THEN <<>>
    ELSE IF Head(history) > cutoff THEN <<Head(history)>> \o SelectNewer(Tail(history), cutoff)
         ELSE SelectNewer(Tail(history), cutoff)

\* RateLimitStrategy.generateHeaders, the names of the headers it returns: Retry-After and
\* X-RateLimit-Backoff are spread in only when the field of the object passed is truthy
\* (0 stands for an undefined field)
generateHeaders(retryAfter, backoffDelay) ==
    {"X-RateLimit-Limit", "X-RateLimit-Remaining", "X-RateLimit-Reset"}
    \cup (IF retryAfter # 0 THEN {"Retry-After"} ELSE {})
    \cup (IF backoffDelay # 0 THEN {"X-RateLimit-Backoff"} ELSE {})

\* RateLimiter.generateBackoffHeaders
generateBackoffHeaders == {"X-RateLimit-Backoff", "Retry-After"}

\* the object the three strategies return: the headers are generated from a literal that has
\* allowed, limit, remaining, resetTime and strategy, and neither retryAfter nor backoffDelay
Result(allowed, config, remaining, resetTime, t) ==
    [allowed |-> allowed, limit |-> config.requests, remaining |-> Max(0, remaining),
     resetTime |-> resetTime,
     retryAfter |-> IF allowed THEN 0 ELSE calculateRetryAfter(resetTime, t),
     backoffDelay |-> 0,
     headers |-> generateHeaders(0, 0)]

\* a refill that fills the bucket up whenever any token is due
RefillToFull(config, state, t) ==
    IF ((t - state.lastRefill) * config.requests) \div (config.window * MsPerSec) > 0
    THEN [state EXCEPT !.tokens = config.requests, !.lastRefill = t]
    ELSE state

\* TokenBucketStrategy.check, the refill: floor(elapsed / windowMs * requests) tokens are added up
\* to the capacity, and lastRefill moves only when at least one token is added
Refill(config, state, t) ==
    LET timeElapsed == t - state.lastRefill
        tokensToAdd == (timeElapsed * config.requests) \div (config.window * MsPerSec)
    IN IF tokensToAdd > 0
       THEN [state EXCEPT !.tokens = Min(config.requests, state.tokens + tokensToAdd), !.lastRefill = t]
       ELSE state

\* a token bucket that draws on the burst pool before the primary pool
TokenBucketCheckBurstFirst(config, state, t) ==
    LET windowMs == config.window * MsPerSec
        s0 == IF state.lastRefill = 0
              THEN [state EXCEPT !.tokens = config.requests, !.lastRefill = t] ELSE state
        s1 == Refill(config, s0, t)
        burstTokensAvailable ==
            IF config.burst.enabled
            THEN (config.requests * config.burst.multiplier - config.requests) - s1.burstTokens
            ELSE 0
        allowed == s1.tokens + burstTokensAvailable > 0
        s2 == IF allowed
              THEN IF burstTokensAvailable > 0 THEN [s1 EXCEPT !.burstTokens = @ + 1]
                   ELSE IF s1.tokens > 0 THEN [s1 EXCEPT !.tokens = @ - 1] ELSE s1
              ELSE s1
    IN [state |-> s2, result |-> Result(allowed, config, s2.tokens, s2.lastRefill + windowMs, t)]

\* TokenBucketStrategy.check
TokenBucketCheck(config, state, t) ==
    LET windowMs == config.window * MsPerSec
        s0 == IF state.lastRefill = 0
              THEN [state EXCEPT !.tokens = config.requests, !.lastRefill = t] ELSE state
        s1 == Refill(config, s0, t)
        burstTokensAvailable ==
            IF config.burst.enabled
            THEN (config.requests * config.burst.multiplier - config.requests) - s1.burstTokens
            ELSE 0
        allowed == s1.tokens + burstTokensAvailable > 0
        s2 == IF allowed
              THEN IF s1.tokens > 0 THEN [s1 EXCEPT !.tokens = @ - 1]
                   ELSE IF burstTokensAvailable > 0 THEN [s1 EXCEPT !.burstTokens = @ + 1] ELSE s1
              ELSE s1
    IN [state |-> s2, result |-> Result(allowed, config, s2.tokens, s2.lastRefill + windowMs, t)]

\* a sliding window that admits while the count is at most the limit
SlidingWindowCheckOffByOne(config, state, t) ==
    LET windowMs == config.window * MsPerSec
        kept == SelectNewer(state.requestHistory, t - windowMs)
        allowed == Len(kept) <= config.requests
        history == IF allowed THEN Append(kept, t) ELSE kept
        resetTime == IF history # <<>> THEN history[1] + windowMs ELSE t + windowMs
    IN [state |-> [state EXCEPT !.requestHistory = history],
        result |-> Result(allowed, config, config.requests - Len(kept), resetTime, t)]

\* SlidingWindowStrategy.check
SlidingWindowCheck(config, state, t) ==
    LET windowMs == config.window * MsPerSec
        cutoff == t - windowMs
        kept == SelectNewer(state.requestHistory, cutoff)
        currentRequests == Len(kept)
        allowed == currentRequests < config.requests
        history == IF allowed THEN Append(kept, t) ELSE kept
        resetTime == IF history # <<>> THEN history[1] + windowMs ELSE t + windowMs
    IN [state |-> [state EXCEPT !.requestHistory = history],
        result |-> Result(allowed, config, config.requests - currentRequests, resetTime, t)]

\* a fixed window whose counter is never reset
FixedWindowCheckNoReset(config, state, t) ==
    LET windowMs == config.window * MsPerSec
        windowStart == (t \div windowMs) * windowMs
        windowEnd == windowStart + windowMs
        s1 == IF state.lastRefill = 0
              THEN [state EXCEPT !.tokens = 0, !.lastRefill = windowStart] ELSE state
        currentRequests == s1.tokens
        allowed == currentRequests < config.requests
        s2 == IF allowed THEN [s1 EXCEPT !.tokens = @ + 1] ELSE s1
    IN [state |-> s2, result |-> Result(allowed, config, config.requests - currentRequests, windowEnd, t)]

\* FixedWindowStrategy.check
FixedWindowCheck(config, state, t) ==
    LET windowMs == config.window * MsPerSec
        windowStart == (t \div windowMs) * windowMs
        windowEnd == windowStart + windowMs
        s1 == IF state.lastRefill = 0 \/ state.lastRefill < windowStart
              THEN [state EXCEPT !.tokens = 0, !.lastRefill = windowStart] ELSE state
        currentRequests == s1.tokens
        allowed == currentRequests < config.requests
        s2 == IF allowed THEN [s1 EXCEPT !.tokens = @ + 1] ELSE s1
    IN [state |-> s2, result |-> Result(allowed, config, config.requests - currentRequests, windowEnd, t)]

StrategyCheck(config, state, t) ==
    CASE config.strategy = "token-bucket" -> TokenBucketCheck(config, state, t)
      [] config.strategy = "sliding-window" -> SlidingWindowCheck(config, state, t)
      [] config.strategy = "fixed-window" -> FixedWindowCheck(config, state, t)

(* BackoffCalculator *)
RECURSIVE Pow2(_)
Pow2(n) == IF n <= 0 THEN 1 ELSE 2 * Pow2(n - 1)

RECURSIVE FibLoop(_, _, _, _)
FibLoop(i, n, a, b) == IF i > n THEN b ELSE FibLoop(i + 1, n, b, a + b)
fibonacci(n) == IF n <= 1 THEN n ELSE FibLoop(2, n, 0, 1)

\* a calculateDelay that leaves the maxDelay limit out
calculateDelayUncapped(attempt, strategy, baseDelay, maxDelay, jitter, percent) ==
    LET raw == CASE strategy = "exponential" -> baseDelay * Pow2(attempt - 1)
                 [] strategy = "linear" -> baseDelay * attempt
                 [] strategy = "fibonacci" -> baseDelay * fibonacci(attempt)
                 [] OTHER -> baseDelay
    IN IF jitter THEN (raw * percent) \div 100 ELSE raw

calculateDelay(attempt, strategy, baseDelay, maxDelay, jitter, percent) ==
    LET raw == CASE strategy = "exponential" -> baseDelay * Pow2(attempt - 1)
                 [] strategy = "linear" -> baseDelay * attempt
                 [] strategy = "fibonacci" -> baseDelay * fibonacci(attempt)
                 [] OTHER -> baseDelay
        capped == Min(raw, maxDelay)
    IN IF jitter THEN (capped * percent) \div 100 ELSE capped

(* The backoff branch of checkLimit on one key whose strategy denies call after call, under
   CommonRateLimits.auth's backoff (exponential, baseDelay 1000, maxDelay 60000), jitter on or off *)
AuthBaseDelay == 1000
AuthMaxDelay == 60000
\* the largest consecutiveFailures followed
MaxFailures == 8
\* Math.random() for these calls: the factor 0.5 + random * 0.5, in percent
BackoffPercents == {50, 60, 75, 90, 99}
AuthBackoffs ==
    {[enabled |-> TRUE, strategy |-> "exponential", baseDelay |-> AuthBaseDelay,
      maxDelay |-> AuthMaxDelay, jitter |-> j] : j \in BOOLEAN}
NoDenials == [consecutiveFailures |-> 0, backoffUntil |-> 0, delay |-> 0, prev |-> 0]

\* checkLimit, `if (!result.allowed && config.backoff?.enabled)`: consecutiveFailures++, then
\* backoffUntil = Date.now() + calculateDelay(...); prev keeps the delay of the denial before
\* a gate that never closes: every call goes on to the strategy
InBackoffNever(state, t) == FALSE

\* checkLimit, the gate of an active backoff period
InBackoff(state, t) == state.backoffUntil # 0 /\ t < state.backoffUntil

\* The call is made when the backoff of the denial before has run out, so that the gate
\* `Date.now() < state.backoffUntil` lets it through to the strategy.
DeniedCheck(percent) ==
    /\ bk.state.consecutiveFailures < MaxFailures
    /\ now' = Max(now, bk.state.backoffUntil)
    /\ ~InBackoff(bk.state, now')
    /\ LET n == bk.state.consecutiveFailures + 1
           backoffDelay == calculateDelay(n, bk.backoff.strategy, bk.backoff.baseDelay,
                                          bk.backoff.maxDelay, bk.backoff.jitter, percent)
       IN bk' = [bk EXCEPT !.state = [consecutiveFailures |-> n, backoffUntil |-> now' + backoffDelay,
                                      delay |-> backoffDelay, prev |-> bk.state.delay]]
    /\ UNCHANGED <<cacheVars, rlCfg, states, rlRes, admitLog, winCalls, req, race, dist, metrics, errVars>>

\* checkLimit once the config is found: the backoff gate, the strategy, the backoff update

\* checkLimit without the reset of an admitted call
CheckLimitCoreNoReset(config, state, t, percent) ==
    IF InBackoff(state, t)
    THEN [state |-> state, skipped |-> TRUE,
          result |-> [allowed |-> FALSE, limit |-> config.requests, remaining |-> 0,
                      resetTime |-> state.backoffUntil,
                      retryAfter |-> CeilDivPos(state.backoffUntil - t, MsPerSec),
                      backoffDelay |-> CeilDivPos(state.backoffUntil - t, MsPerSec),
                      headers |-> generateBackoffHeaders]]
    ELSE
    LET c == StrategyCheck(config, state, t) IN
    IF ~c.result.allowed /\ config.backoff.enabled
    THEN LET n == c.state.consecutiveFailures + 1
             backoffDelay == calculateDelay(n, config.backoff.strategy, config.backoff.baseDelay,
                                            config.backoff.maxDelay, config.backoff.jitter, percent)
         IN [state |-> [c.state EXCEPT !.consecutiveFailures = n, !.backoffUntil = t + backoffDelay],
             skipped |-> FALSE,
             result |-> [c.result EXCEPT !.backoffDelay = CeilDivPos(backoffDelay, MsPerSec)]]
    ELSE IF c.result.allowed
    THEN [state |-> c.state, skipped |-> FALSE, result |-> c.result]
    ELSE [state |-> c.state, skipped |-> FALSE, result |-> c.result]

CheckLimitCore(config, state, t, percent) ==
    IF InBackoff(state, t)
    THEN [state |-> state, skipped |-> TRUE,
          result |-> [allowed |-> FALSE, limit |-> config.requests, remaining |-> 0,
                      resetTime |-> state.backoffUntil,
                      retryAfter |-> CeilDivPos(state.backoffUntil - t, MsPerSec),
                      backoffDelay |-> CeilDivPos(state.backoffUntil - t, MsPerSec),
                      headers |-> generateBackoffHeaders]]
    ELSE
    LET c == StrategyCheck(config, state, t) IN
    IF ~c.result.allowed /\ config.backoff.enabled
    THEN LET n == c.state.consecutiveFailures + 1
             backoffDelay == calculateDelay(n, config.backoff.strategy, config.backoff.baseDelay,
                                            config.backoff.maxDelay, config.backoff.jitter, percent)
         IN [state |-> [c.state EXCEPT !.consecutiveFailures = n, !.backoffUntil = t + backoffDelay],
             skipped |-> FALSE,
             result |-> [c.result EXCEPT !.backoffDelay = CeilDivPos(backoffDelay, MsPerSec)]]
    ELSE IF c.result.allowed
    THEN [state |-> [c.state EXCEPT !.consecutiveFailures = 0, !.backoffUntil = 0],
          skipped |-> FALSE, result |-> c.result]
    ELSE [state |-> c.state, skipped |-> FALSE, result |-> c.result]

NoResult ==
    [kind |-> "none", name |-> "", code |-> "", key |-> "", context |-> NoContext, skipped |-> FALSE, allowed |-> FALSE, limit |-> 0, remaining |-> 0,
     resetTime |-> 0, retryAfter |-> 0, backoffDelay |-> 0, headers |-> {}]

\* the counters of getMetrics that updateMetrics moves; results counts the checkLimit calls
\* that returned a result, admitted and denied
NoMetrics ==
    [totalRequests |-> 0, allowedRequests |-> 0, blockedRequests |-> 0,
     results |-> [allowed |-> 0, denied |-> 0]]

WindowStartOf(t) == (t \div (rlCfg.window * MsPerSec)) * (rlCfg.window * MsPerSec)

\* a lookup that finds a config under every name
checkLimitThrowsNever(limitName) == "none"

\* RateLimiter.checkLimit, the lookups: the code of the RateLimitError thrown for a name
\* without config, "none" when the config and its strategy are found
checkLimitThrows(limitName) ==
    IF limitName # RegisteredName THEN "CONFIG_NOT_FOUND" ELSE "none"

\* RateLimiter.checkLimit: throws after a failed lookup, else runs the check on the state of
\* the derived key and saves it
DoCheckLimit(limitName, context, percent) ==
    IF checkLimitThrows(limitName) # "none"
    THEN /\ rlRes' = [NoResult EXCEPT !.kind = "raised", !.name = limitName,
                                      !.code = checkLimitThrows(limitName)]
         /\ UNCHANGED <<states, admitLog, winCalls>>
    ELSE LET key == generateKey(limitName, context)
             c == CheckLimitCore(rlCfg, getState(key), now, percent)
             recent == SelectNewer(admitLog, now - rlCfg.window * MsPerSec)
         IN /\ states' = With(states, key, c.state)
            /\ rlRes' = [kind |-> "result", name |-> limitName, code |-> "", key |-> key,
                         context |-> context, skipped |-> c.skipped,
                         allowed |-> c.result.allowed, limit |-> c.result.limit,
                         remaining |-> c.result.remaining, resetTime |-> c.result.resetTime,
                         retryAfter |-> c.result.retryAfter, backoffDelay |-> c.result.backoffDelay,
                         headers |-> c.result.headers]
            /\ admitLog' = IF c.result.allowed THEN Append(recent, now) ELSE recent
            /\ winCalls' = IF winCalls.start = WindowStartOf(now)
                           THEN [winCalls EXCEPT !.calls = @ + 1]
                           ELSE [start |-> WindowStartOf(now), calls |-> 1]

CallsLeft == winCalls.start # WindowStartOf(now) \/ winCalls.calls < MaxWinCalls

CheckLimit(limitName, context, percent) ==
    /\ limitName = RegisteredName => CallsLeft
    /\ DoCheckLimit(limitName, context, percent)
    /\ UNCHANGED <<now, cacheVars, rlCfg, bk, race, dist, metrics, req, errVars>>

\* updateMetrics, called by checkLimit after saveState: the return of the gate comes before
\* it. results counts every result returned.
updateMetrics(m, skipped, allowed) ==
    [m EXCEPT !.totalRequests = @ + (IF skipped THEN 0 ELSE 1),
              !.allowedRequests = @ + (IF ~skipped /\ allowed THEN 1 ELSE 0),
              !.blockedRequests = @ + (IF ~skipped /\ ~allowed THEN 1 ELSE 0),
              !.results.allowed = @ + (IF allowed THEN 1 ELSE 0),
              !.results.denied = @ + (IF allowed THEN 0 ELSE 1)]

\* checkLimit with the counters of getMetrics followed
CountedCheckLimit(context, percent) ==
    /\ CallsLeft
    /\ DoCheckLimit(RegisteredName, context, percent)
    /\ metrics' = updateMetrics(metrics, rlRes'.skipped, rlRes'.allowed)
    /\ UNCHANGED <<now, cacheVars, rlCfg, bk, race, dist, req, errVars>>

\* resetMetrics
ResetMetrics ==
    /\ metrics' = NoMetrics
    /\ UNCHANGED <<now, cacheVars, rlCfg, states, rlRes, admitLog, winCalls, req, bk, race, dist, errVars>>

\* the middleware of createRateLimitMiddleware followed by the route handler.
\* What the try block throws: checkLimit's RateLimitError, or the 429 from createError
\* when the result is not allowed
TryThrows(res) ==
    IF res.kind = "raised" THEN "RateLimitError"
    ELSE IF ~res.allowed THEN "H3Error" ELSE "none"

\* the catch clause rethrows (as a 429) only an instance of RateLimitError and logs the rest
CatchRethrows(thrown) == thrown = "RateLimitError"

Request(limitName, skipIf, context, percent) ==
    IF skipIf
    THEN /\ req' = [checked |-> FALSE, denied |-> FALSE, status |-> 200, handlerRan |-> TRUE]
         /\ UNCHANGED <<now, cacheVars, rlCfg, bk, race, dist, metrics, states, rlRes, admitLog, winCalls, errVars>>
    ELSE /\ limitName = RegisteredName => CallsLeft
         /\ DoCheckLimit(limitName, context, percent)
         /\ LET rejected == CatchRethrows(TryThrows(rlRes'))
            IN req' = [checked |-> TRUE,
                       denied |-> rlRes'.kind = "result" /\ ~rlRes'.allowed,
                       status |-> IF rejected THEN 429 ELSE 200,
                       handlerRan |-> ~rejected]
         /\ UNCHANGED <<now, cacheVars, rlCfg, bk, race, dist, metrics, errVars>>

(* Overlapping checkLimit calls on one derived key. `await this.getState(key, config)` ends the
   first part of a call; the gate, the strategy, the backoff update and saveState form the
   second. getState hands out the object held in this.states (every caller of the key then
   works on that one object) unless the config is distributed and the shared store has the
   key: then each caller gets its own object, parsed from the stored JSON, and this.states is
   pointed at it. saveState points this.states at the caller's object and, when distributed,
   writes its JSON to the shared store. *)

RaceCallers == {"a", "b"}
\* the number of checkLimit calls started on the key
MaxRaceCalls == 3
NoShared == [present |-> FALSE, state |-> FreshState]
IdleCall == [pc |-> "idle", own |-> FALSE, state |-> FreshState]
NoRace ==
    [distributed |-> FALSE, local |-> FreshState, shared |-> NoShared,
     calls |-> [c \in RaceCallers |-> IdleCall],
     started |-> 0, admitted |-> 0, seq |-> FreshState, seqAdmitted |-> 0]

\* dist before any call: redis is this.redis # null; shared is the item ratelimit:<key> of the
\* shared store with the clock reading at which its ttl runs out; cleared tells that clearStates
\* removed the key's state and no checkLimit followed; call holds the inputs of the last call,
\* calls the number of checkLimit calls made
NoSharedItem == [present |-> FALSE, state |-> FreshState, until |-> 0]
NoDistCall == [failedRead |-> FALSE, failedWrite |-> FALSE, percent |-> 0]
NoDist ==
    [redis |-> FALSE, shared |-> NoSharedItem, cleared |-> FALSE, call |-> NoDistCall, calls |-> 0]

\* this.states is pointed at another object: a caller still working on the object it held until
\* now keeps that object, with the content it has at this moment
Detach(calls, c, local) ==
    [x \in RaceCallers |->
        IF x # c /\ calls[x].pc = "read" /\ ~calls[x].own
        THEN [calls[x] EXCEPT !.own = TRUE, !.state = local]
        ELSE calls[x]]

\* getState: the parsed copy of the shared store's state, or the object of this.states
RaceRead(c) ==
    /\ race.calls[c].pc = "idle"
    /\ race.started < MaxRaceCalls
    /\ IF race.distributed /\ race.shared.present
       THEN race' = [race EXCEPT
                        !.calls = [Detach(race.calls, c, race.local) EXCEPT
                                      ![c] = [pc |-> "read", own |-> TRUE, state |-> race.shared.state]],
                        !.local = race.shared.state,
                        !.started = @ + 1]
       ELSE race' = [race EXCEPT
                        !.calls[c] = [pc |-> "read", own |-> FALSE, state |-> FreshState],
                        !.started = @ + 1]
    /\ UNCHANGED <<now, cacheVars, rlCfg, states, rlRes, admitLog, winCalls, req, bk, dist, metrics, errVars>>

\* the rest of checkLimit on the state obtained, then saveState. seq and seqAdmitted follow the
\* same calls made one after another on one state.
RaceCheck(c, percent) ==
    /\ race.calls[c].pc = "read"
    /\ LET held == IF race.calls[c].own THEN race.calls[c].state ELSE race.local
           r == CheckLimitCore(rlCfg, held, now, percent)
           q == CheckLimitCore(rlCfg, race.seq, now, percent)
           others == IF race.calls[c].own THEN Detach(race.calls, c, race.local) ELSE race.calls
       IN race' = [race EXCEPT
                      !.calls = [others EXCEPT ![c] = IdleCall],
                      !.local = r.state,
                      !.shared = IF race.distributed THEN [present |-> TRUE, state |-> r.state] ELSE @,
                      !.admitted = @ + (IF r.result.allowed THEN 1 ELSE 0),
                      !.seq = q.state,
                      !.seqAdmitted = @ + (IF q.result.allowed THEN 1 ELSE 0)]
    /\ UNCHANGED <<now, cacheVars, rlCfg, states, rlRes, admitLog, winCalls, req, bk, dist, metrics, errVars>>

(* checkLimit and clearStates on a config with distributed.enabled, calls one after another.
   failRead and failWrite tell that redis.getItem and redis.setItem of the call throw. *)

\* the key of the calls followed
DistKey == generateKey(RegisteredName, CHOOSE c \in Contexts : TRUE)

\* a getState that starts from a fresh state when the shared store cannot be read
DistGetStateFresh(key, failRead) ==
    IF dist.redis /\ ~failRead /\ dist.shared.present /\ now < dist.shared.until
    THEN dist.shared.state
    ELSE IF failRead THEN FreshState ELSE getState(key)

\* getState: the parsed item of the shared store when there is one; the catch clause and the
\* missing item both lead on to the state of this.states
DistGetState(key, failRead) ==
    IF dist.redis /\ ~failRead /\ dist.shared.present /\ now < dist.shared.until
    THEN dist.shared.state
    ELSE getState(key)

\* checkLimit: getState, the gate (which returns before saveState), the strategy, the backoff
\* update, saveState (this.states first, then setItem with ttl = 2 * window, its throw caught)
DistCheckLimit(context, failRead, failWrite, percent) ==
    /\ dist.calls < MaxDistCalls
    /\ (failRead \/ failWrite) => dist.redis
    /\ LET key == generateKey(RegisteredName, context)
           c == CheckLimitCore(rlCfg, DistGetState(key, failRead), now, percent)
           recent == SelectNewer(admitLog, now - rlCfg.window * MsPerSec)
       IN /\ states' = With(states, key, c.state)
          /\ dist' = [dist EXCEPT
                        !.shared = IF ~c.skipped /\ dist.redis /\ ~failWrite
                                   THEN [present |-> TRUE, state |-> c.state,
                                         until |-> now + 2 * rlCfg.window * MsPerSec]
                                   ELSE @,
                        !.cleared = FALSE,
                        !.calls = @ + 1,
                        !.call = [failedRead |-> failRead, failedWrite |-> failWrite,
                                  percent |-> percent]]
          /\ rlRes' = [kind |-> "result", name |-> RegisteredName, code |-> "", key |-> key,
                       context |-> context, skipped |-> c.skipped,
                       allowed |-> c.result.allowed, limit |-> c.result.limit,
                       remaining |-> c.result.remaining, resetTime |-> c.result.resetTime,
                       retryAfter |-> c.result.retryAfter, backoffDelay |-> c.result.backoffDelay,
                       headers |-> c.result.headers]
          /\ admitLog' = IF c.result.allowed THEN Append(recent, now) ELSE recent
          /\ winCalls' = IF winCalls.start = WindowStartOf(now)
                         THEN [winCalls EXCEPT !.calls = @ + 1]
                         ELSE [start |-> WindowStartOf(now), calls |-> 1]
    /\ UNCHANGED <<now, cacheVars, rlCfg, req, bk, race, metrics, errVars>>

\* the regular expression of clearStates: the text of a limit name, found in the keys of that name
PatternMatches(pattern, key) == \E c \in Contexts : key = generateKey(pattern, c)

\* clearStates. With a pattern: the matching keys leave this.states and redis.removeItem(key)
\* is called with the key of this.states, not with ratelimit:<key>, so the item of the shared
\* store stays. Without: this.states is emptied and the items listed by getKeys('ratelimit:*')
\* are removed; a throw of the storage is caught and leaves them.
ClearStates(pattern, fail) ==
    /\ fail => dist.redis
    /\ LET removed == IF pattern = NoPattern THEN DOMAIN states
                      ELSE {k \in DOMAIN states : PatternMatches(pattern, k)}
       IN /\ states' = [k \in DOMAIN states \ removed |-> states[k]]
          /\ dist' = [dist EXCEPT
                        !.shared = IF pattern = NoPattern /\ dist.redis /\ ~fail
                                   THEN NoSharedItem ELSE @,
                        !.cleared = @ \/ DistKey \in removed,
                        !.call = NoDistCall]
    /\ rlRes' = NoResult
    /\ UNCHANGED <<now, cacheVars, rlCfg, admitLog, winCalls, req, bk, race, metrics, errVars>>

----------------------------------------------------------------------------
(* ErrorHandler *)

\* strategies added through addRecoveryStrategy, at most
MaxAdded == 2
\* the ceiling of handleError on recoveryAttempts
MaxRecoveryAttempts == 3

ErrIds == {"e1"}
Categories == {"validation", "network", "auth", "rate_limit", "api", "system", "business"}
\* the details an AppError instance can carry: the typed subclasses, and AppError itself
ErrorKinds ==
    {[category |-> "validation", retryable |-> FALSE],
     [category |-> "network", retryable |-> TRUE],
     [category |-> "auth", retryable |-> TRUE],
     [category |-> "rate_limit", retryable |-> TRUE],
     [category |-> "api", retryable |-> TRUE],
     [category |-> "api", retryable |-> FALSE],
     [category |-> "business", retryable |-> FALSE],
     [category |-> "system", retryable |-> FALSE],
     [category |-> "system", retryable |-> TRUE]}

\* RecoveryStrategies: canRecover as the category it matches ("any" for a custom catch-all),
\* and whether recover can throw
BuiltIn ==
    << [name |-> "token-refresh", category |-> "auth", needsRetryable |-> FALSE, maxAttempts |-> 2, mayThrow |-> TRUE],
       [name |-> "rate-limit-backoff", category |-> "rate_limit", needsRetryable |-> FALSE, maxAttempts |-> 3, mayThrow |-> FALSE],
       [name |-> "network-retry", category |-> "network", needsRetryable |-> TRUE, maxAttempts |-> 3, mayThrow |-> FALSE],
       [name |-> "api-fallback", category |-> "api", needsRetryable |-> FALSE, maxAttempts |-> 1, mayThrow |-> TRUE] >>

Custom ==
    {[name |-> "custom-any", category |-> "any", needsRetryable |-> FALSE, maxAttempts |-> 5, mayThrow |-> TRUE],
     [name |-> "custom-api", category |-> "api", needsRetryable |-> FALSE, maxAttempts |-> 4, mayThrow |-> TRUE]}

StrategyNames == {BuiltIn[i].name : i \in 1..Len(BuiltIn)} \cup {c.name : c \in Custom}

canRecover(strategy, error) ==
    /\ strategy.category = "any" \/ strategy.category = error.category
    /\ strategy.needsRetryable => error.retryable

\* a catch clause that logs and goes on to the next strategy
CatchClauseContinues == FALSE

\* the catch clause of attemptRecovery binds `recoveryerror` and reads `recoveryError`:
\* evaluating the console.warn argument throws a ReferenceError out of the loop
CatchClauseThrows == TRUE

\* a loop over the strategies from the last registered to the first
RECURSIVE attemptRecoveryBackwards(_, _, _, _, _)
attemptRecoveryBackwards(list, i, error, throwing, called) ==
    IF i > Len(list)
    THEN [status |-> "failed", attempts |-> error.recoveryAttempts, strategy |-> "", called |-> called]
    ELSE LET s == list[Len(list) + 1 - i] IN
         IF canRecover(s, error) /\ error.recoveryAttempts < s.maxAttempts
         THEN LET e1 == [error EXCEPT !.recoveryAttempts = @ + 1] IN
              IF s.name \notin throwing
              THEN [status |-> "success", attempts |-> e1.recoveryAttempts, strategy |-> s.name,
                    called |-> Append(called, s.name)]
              ELSE [status |-> "threw", attempts |-> e1.recoveryAttempts, strategy |-> "",
                    called |-> Append(called, s.name)]
         ELSE attemptRecoveryBackwards(list, i + 1, error, throwing, called)

\* attemptRecovery from strategy i on; throwing = the strategies whose recover throws in this call
RECURSIVE attemptRecovery(_, _, _, _, _)
attemptRecovery(list, i, error, throwing, called) ==
    IF i > Len(list)
    THEN [status |-> "failed", attempts |-> error.recoveryAttempts, strategy |-> "", called |-> called]
    ELSE IF canRecover(list[i], error) /\ error.recoveryAttempts < list[i].maxAttempts
    THEN LET e1 == [error EXCEPT !.recoveryAttempts = @ + 1] IN
         IF list[i].name \notin throwing
         THEN [status |-> "success", attempts |-> e1.recoveryAttempts, strategy |-> list[i].name,
               called |-> Append(called, list[i].name)]
         ELSE IF CatchClauseThrows
         THEN [status |-> "threw", attempts |-> e1.recoveryAttempts, strategy |-> "",
               called |-> Append(called, list[i].name)]
         ELSE attemptRecovery(list, i + 1, e1, throwing, Append(called, list[i].name))
    ELSE attemptRecovery(list, i + 1, error, throwing, called)

\* handleError after normalizeError: the guard, the recovery, the returned object
\* a guard that looks at the attempts only
shouldRecoverAny(error) == error.recoveryAttempts < MaxRecoveryAttempts

\* handleError, the guard of the recovery: `appError.details.retryable && appError.recoveryAttempts < 3`
shouldRecover(error) == error.retryable /\ error.recoveryAttempts < MaxRecoveryAttempts

\* recoverySuccess and recoveryFailures are the amounts the call adds to the two metrics
handleErrorCore(error, throwing) ==
    IF shouldRecover(error)
    THEN LET r == attemptRecovery(recoveryStrategies, 1, error, throwing, <<>>) IN
         [kind |-> IF r.status = "threw" THEN "rejected" ELSE "returned",
          recovered |-> r.status = "success",
          finalError |-> r.status # "threw",
          strategy |-> r.strategy, called |-> r.called, attempts |-> r.attempts,
          recoverySuccess |-> IF r.status = "success" THEN 1 ELSE 0,
          recoveryFailures |-> IF r.status = "failed" THEN 1 ELSE 0]
    ELSE [kind |-> "returned", recovered |-> FALSE, finalError |-> TRUE, strategy |-> "",
          called |-> <<>>, attempts |-> error.recoveryAttempts,
          recoverySuccess |-> 0, recoveryFailures |-> 0]

\* An untyped Error's message, as the set of the phrasings it contains (String.includes is
\* case-sensitive: these are the lower-case substrings). An empty set is any other message.
Phrases == {"fetch failed", "network", "timeout", "401", "unauthorized", "429", "rate limit"}
\* the largest number of these phrasings in one message
MaxPhrases == 1
Messages == {m \in SUBSET Phrases : Cardinality(m) <= MaxPhrases}

\* normalizeError of an untyped Error: NetworkError, AuthenticationError, RateLimitError (all
\* three retryable) or the generic AppError, by the first test its message passes
normalizeError(message) ==
    IF "fetch failed" \in message \/ "network" \in message
    THEN [category |-> "network", retryable |-> TRUE, recoveryAttempts |-> 0]
    ELSE IF "401" \in message \/ "unauthorized" \in message
    THEN [category |-> "auth", retryable |-> TRUE, recoveryAttempts |-> 0]
    ELSE IF "429" \in message \/ "rate limit" \in message
    THEN [category |-> "rate_limit", retryable |-> TRUE, recoveryAttempts |-> 0]
    ELSE [category |-> "system", retryable |-> FALSE, recoveryAttempts |-> 0]

MayThrow == {n \in StrategyNames : \E i \in 1..Len(recoveryStrategies) :
                  recoveryStrategies[i].name = n /\ recoveryStrategies[i].mayThrow}

\* handleError with an AppError instance: the instance itself is used
HandleError(id, throwing) ==
    /\ LET h == handleErrorCore(errs[id], throwing) IN
       /\ errs' = [errs EXCEPT ![id].recoveryAttempts = h.attempts]
       /\ recoverCalls' = [recoverCalls EXCEPT ![id] = @ + Len(h.called)]
       /\ heRes' = [kind |-> h.kind, error |-> id, recovered |-> h.recovered,
                    finalError |-> h.finalError, strategy |-> h.strategy, called |-> h.called,
                    recoverySuccess |-> h.recoverySuccess, recoveryFailures |-> h.recoveryFailures,
                    message |-> {}, category |-> errs[id].category,
                    retryable |-> errs[id].retryable]
    /\ UNCHANGED <<now, cacheVars, rateVars, srch, flight, recoveryStrategies>>

\* handleError with an untyped Error: normalizeError builds a new instance
HandleUntyped(message, throwing) ==
    /\ LET e == normalizeError(message)
           h == handleErrorCore(e, throwing)
       IN heRes' = [kind |-> h.kind, error |-> "untyped", recovered |-> h.recovered,
                    finalError |-> h.finalError, strategy |-> h.strategy, called |-> h.called,
                    recoverySuccess |-> h.recoverySuccess, recoveryFailures |-> h.recoveryFailures,
                    message |-> message, category |-> e.category, retryable |-> e.retryable]
    /\ UNCHANGED <<now, cacheVars, rateVars, srch, flight, errs, recoveryStrategies, recoverCalls>>

addRecoveryStrategy(strategy) ==
    /\ Len(recoveryStrategies) < Len(BuiltIn) + MaxAdded
    /\ \A i \in 1..Len(recoveryStrategies) : recoveryStrategies[i].name # strategy.name
    /\ recoveryStrategies' = Append(recoveryStrategies, strategy)
    /\ UNCHANGED <<now, cacheVars, rateVars, srch, flight, errs, recoverCalls, heRes>>

----------------------------------------------------------------------------
(* Initial states and specifications *)

NoRequest == [checked |-> FALSE, denied |-> FALSE, status |-> 0, handlerRan |-> FALSE]
NoHandled == [kind |-> "none", error |-> "", recovered |-> FALSE, finalError |-> FALSE,
              strategy |-> "", called |-> <<>>, message |-> {}, category |-> "", retryable |-> FALSE,
              recoverySuccess |-> 0, recoveryFailures |-> 0]


----------------------------------------------------------------------------
(* POST /api/spotify/search (search.post.ts), from the cache lookup on: validation and the
   rate limit have let the request through. A playlist list is modelled by its length; the
   Spotify client and the cache are the handler's collaborators. *)

\* the number of playlists the handler aims at
PlaylistLimit == 50
\* the primary search finds PlaylistLimit - SearchSpan .. PlaylistLimit + SearchSpan playlists,
\* the related-genre search 0 .. 2 * SearchSpan playlists not yet in the list
SearchSpan == 4
PrimaryCounts == (PlaylistLimit - SearchSpan)..(PlaylistLimit + SearchSpan)
PaddingCounts == 0..(2 * SearchSpan)
\* no SearchResult cached under the key
NoCount == 0 - 1
NoSearch ==
    [cache |-> NoCount, kind |-> "none", cacheHit |-> FALSE, primary |-> 0, related |-> FALSE,
     padding |-> 0, status |-> 0, count |-> 0]

\* addPaddingPlaylists: null without related genres, else the first `needed` playlists of the
\* related-genre search that the list does not hold yet
addPaddingPlaylists(have, related, padding) ==
    IF PlaylistLimit - have <= 0 \/ ~related THEN 0 ELSE Min(padding, PlaylistLimit - have)

\* `await this.addPaddingPlaylists(...)` inside the arrow function given to defineEventHandler:
\* `this` is undefined there, so evaluating the call throws a TypeError
PaddingCallThrows == TRUE

\* the status of the error response, by the category of handleError's finalError
StatusOf(category) ==
    CASE category = "validation" -> 400
      [] category = "auth" -> 401
      [] category = "rate_limit" -> 429
      [] category = "business" -> 422
      [] category \in {"network", "api"} -> 503
      [] OTHER -> 500

\* the handler on a cache miss: trim to 50, pad when fewer than 50, final trim
SearchMiss(primary, related, padding) ==
    LET trimmed == Min(primary, PlaylistLimit) IN
    IF trimmed < PlaylistLimit /\ PaddingCallThrows
    THEN \* catch: handleError of the TypeError, whose message matches no phrasing
         LET e == normalizeError({})
             h == handleErrorCore(e, {})
         IN [success |-> h.recovered, status |-> StatusOf(e.category), count |-> 0]
    ELSE LET padded == trimmed + addPaddingPlaylists(trimmed, related, padding)
         IN [success |-> TRUE, status |-> 200, count |-> Min(padded, PlaylistLimit)]

\* One request. cache.get answers with the cached SearchResult (cacheLive) or with null, once
\* the entry has expired or when none was stored; a successful miss ends with cache.set.
\* primary, related and padding are what the Spotify client and getRelatedGenres answer.
Search(cacheLive, primary, related, padding) ==
    /\ LET hit == cacheLive /\ srch.cache # NoCount
           r == IF hit THEN [success |-> TRUE, status |-> 200, count |-> srch.cache]
                ELSE SearchMiss(primary, related, padding)
       IN srch' = [cache |-> IF hit THEN srch.cache ELSE IF r.success THEN r.count ELSE NoCount,
                   kind |-> IF r.success THEN "success" ELSE "error",
                   cacheHit |-> hit,
                   primary |-> IF hit THEN 0 ELSE primary,
                   related |-> ~hit /\ related,
                   padding |-> IF hit THEN 0 ELSE padding,
                   status |-> r.status, count |-> r.count]
    /\ UNCHANGED <<now, cacheVars, rateVars, errs, recoveryStrategies, recoverCalls, heRes, flight>>

(* The catch block of the search handler on a failure of the Spotify API, next to the requests
   that succeeded before: handleError with context.operation and the request's own requestId. *)

\* CacheKeys.search(['rock'], 0): 'spotify:search:' and the base64 text of 'rock:0'
SearchCacheKey == "spotify:search:cm9jazow"
\* the ttl of the handler's cache.set, in seconds
SearchTtl == 900
\* `search_${startTime}_${random}`: every request draws its own
RequestIds == {"search_10000_k3x9q2m1a", "search_10500_p7d4w8z2c"}
Operations == {"search-playlists", "export-playlists"}
\* the key api-fallback looks up
FallbackKey(operation, requestId) == "fallback_" \o operation \o "_" \o requestId

\* a request that succeeds: the handler ends with cache.set(cacheKey, searchResult, 900, tags)
SearchStored ==
    /\ LET r == CacheManagerSet(SearchCacheKey, OtherValue, SearchTtl, FALSE, now) IN
       /\ mem' = r.mem
       /\ redisStore' = r.redisStore
       /\ browserStore' = r.browserStore
       /\ cacheRes' = [NoCacheRes EXCEPT !.op = "set", !.key = SearchCacheKey, !.value = OtherValue]
    /\ UNCHANGED <<now, env, redis, storage, tiersCfg, maxEntries, defaultTtl, setCount, lastSet, gos>>
    /\ UNCHANGED <<rateVars, errVars>>

\* a request whose Spotify call fails with a retryable SpotifyApiError: handleError, where
\* api-fallback returns what cache.get finds under its key for 'search-playlists' and throws
\* in every other case
ApiFailure(operation, requestId) ==
    /\ LET asked == operation = "search-playlists"
           g == CacheManagerGet(FallbackKey(operation, requestId), FALSE, now)
           throwing == IF asked /\ g.hit THEN {} ELSE {"api-fallback"}
           e == [category |-> "api", retryable |-> TRUE, recoveryAttempts |-> 0]
           h == handleErrorCore(e, throwing)
       IN /\ mem' = IF asked THEN g.mem ELSE mem
          /\ redisStore' = IF asked THEN g.redisStore ELSE redisStore
          /\ browserStore' = IF asked THEN g.browserStore ELSE browserStore
          /\ cacheRes' = IF asked
                         THEN [NoCacheRes EXCEPT !.op = "get", !.hit = g.hit, !.value = g.value,
                                                 !.key = FallbackKey(operation, requestId)]
                         ELSE NoCacheRes
          /\ heRes' = [kind |-> h.kind, error |-> operation, recovered |-> h.recovered,
                       finalError |-> h.finalError, strategy |-> h.strategy, called |-> h.called,
                       recoverySuccess |-> h.recoverySuccess,
                       recoveryFailures |-> h.recoveryFailures,
                       message |-> {}, category |-> e.category, retryable |-> e.retryable]
    /\ UNCHANGED <<now, env, redis, storage, tiersCfg, maxEntries, defaultTtl, setCount, lastSet, gos>>
    /\ UNCHANGED <<rateVars, errs, recoveryStrategies, recoverCalls, srch, flight>>

\* the deployments explored: on the server the redis storage exists and window does not,
\* on the client it is the other way round
CacheConfigs ==
    {[env |-> "server", tiers |-> [memory |-> TRUE, redis |-> FALSE, browser |-> FALSE]],
     [env |-> "server", tiers |-> [memory |-> TRUE, redis |-> TRUE, browser |-> FALSE]],
     [env |-> "server", tiers |-> [memory |-> FALSE, redis |-> TRUE, browser |-> FALSE]],
     [env |-> "client", tiers |-> [memory |-> TRUE, redis |-> TRUE, browser |-> TRUE]],
     [env |-> "client", tiers |-> [memory |-> FALSE, redis |-> TRUE, browser |-> TRUE]]}

CacheInit ==
    /\ \E c \in CacheConfigs : env = c.env /\ tiersCfg = c.tiers
    /\ redis = (env = "server" /\ tiersCfg.redis)
    /\ storage = (env = "client" /\ tiersCfg.browser)
    /\ maxEntries \in IF tiersCfg.memory THEN 1..MaxMaxEntries ELSE {1}
    /\ defaultTtl \in DefaultTtls
    /\ mem = <<>>
    /\ redisStore = EmptyStore
    /\ browserStore = EmptyStore
    /\ cacheRes = NoCacheRes
    /\ setCount = 0
    /\ lastSet = NoSet
    /\ gos = NoCalls

CacheIdle ==
    /\ env = "server"
    /\ tiersCfg = [memory |-> TRUE, redis |-> FALSE, browser |-> FALSE]
    /\ redis = FALSE
    /\ storage = FALSE
    /\ maxEntries = 1
    /\ defaultTtl = 1
    /\ mem = <<>>
    /\ redisStore = EmptyStore
    /\ browserStore = EmptyStore
    /\ cacheRes = NoCacheRes
    /\ setCount = 0
    /\ lastSet = NoSet
    /\ gos = NoCalls

BackoffIdle == [backoff |-> NoBackoff, state |-> NoDenials]

RateInit ==
    /\ rlCfg \in RateLimitConfigs
    /\ bk = BackoffIdle
    /\ race = NoRace /\ dist = NoDist /\ metrics = NoMetrics
    /\ states = EmptyStore
    /\ rlRes = NoResult
    /\ admitLog = <<>>
    /\ winCalls = [start |-> 0, calls |-> 0]
    /\ req = NoRequest

RateQuiet ==
    /\ rlCfg = [requests |-> 1, window |-> 1, strategy |-> "fixed-window", burst |-> NoBurst, backoff |-> NoBackoff]
    /\ states = EmptyStore
    /\ rlRes = NoResult
    /\ admitLog = <<>>
    /\ winCalls = [start |-> 0, calls |-> 0]
    /\ req = NoRequest

RateIdle == RateQuiet /\ bk = BackoffIdle /\ race = NoRace /\ dist = NoDist /\ metrics = NoMetrics

BackoffInit == RateQuiet /\ bk \in [backoff : AuthBackoffs, state : {NoDenials}] /\ race = NoRace /\ dist = NoDist /\ metrics = NoMetrics

ErrInit ==
    /\ errs \in [ErrIds -> {[category |-> k.category, retryable |-> k.retryable, recoveryAttempts |-> 0] : k \in ErrorKinds}]
    /\ recoveryStrategies = BuiltIn
    /\ recoverCalls = [id \in ErrIds |-> 0]
    /\ heRes = NoHandled
    /\ srch = NoSearch
    /\ flight = NoFlight

ErrIdle ==
    /\ errs = [id \in ErrIds |-> [category |-> "system", retryable |-> FALSE, recoveryAttempts |-> 0]]
    /\ recoveryStrategies = BuiltIn
    /\ recoverCalls = [id \in ErrIds |-> 0]
    /\ heRes = NoHandled
    /\ srch = NoSearch
    /\ flight = NoFlight

\* time passes; the outcomes recorded are those of calls made at the current reading
Tick ==
    /\ now + TickMs <= EndMs
    /\ now' = now + TickMs
    /\ cacheRes' = NoCacheRes
    /\ rlRes' = NoResult
    /\ req' = NoRequest
    /\ UNCHANGED <<env, redis, storage, tiersCfg, maxEntries, defaultTtl, mem, redisStore, browserStore, setCount, lastSet, gos>>
    /\ UNCHANGED <<rlCfg, bk, race, dist, metrics, states, admitLog, winCalls, errVars>>

InitCache == now = StartMs /\ CacheInit /\ RateIdle /\ ErrIdle
NextCache ==
    \/ Tick
    \/ \E k \in Keys : Get(k, FALSE)
    \/ Get(Watched, TRUE)
    \/ \E w \in WatchedSets : Set(Watched, w.value, w.ttl, w.fail)
    \/ \E k \in Keys \ {Watched} : Set(k, OtherValue, OtherTtl, FALSE)
    \/ \E k \in Keys : Delete(k, FALSE)
    \/ \E pattern \in {NoPattern, Watched} : Clear(pattern, FALSE)
SpecCache == InitCache /\ [][NextCache]_vars

\* the store under sets, reads and exists
NextExists ==
    \/ Tick
    \/ Get(Watched, FALSE)
    \/ \E w \in WatchedSets : ~w.fail /\ Set(Watched, w.value, w.ttl, FALSE)
    \/ \E k \in Keys \ {Watched} : Set(k, OtherValue, OtherTtl, FALSE)
    \/ \E k \in Keys : Exists(k, FALSE)
SpecExists == InitCache /\ [][NextExists]_vars

\* overlapping getOrSet calls for one key, next to a plain set of that key and the clock
NextGetOrSet ==
    \/ Tick
    \/ Set(Watched, OtherValue, OtherTtl, FALSE)
    \/ \E c \in Callers : GosGet(c)
    \/ \E c \in Callers : GosFactory(c)
    \/ \E c \in Callers : GosStore(c, FALSE)
SpecGetOrSet == InitCache /\ [][NextGetOrSet]_vars

\* the store under sets, reads and invalidations by tag
NextTags ==
    \/ Tick
    \/ \E k \in Keys : Get(k, FALSE)
    \/ \E k \in Keys : Set(k, OtherValue, OtherTtl, FALSE)
    \/ \E tag \in Keys : InvalidateByTags(tag)
SpecTags == InitCache /\ [][NextTags]_vars

InitRate == now = StartMs /\ CacheIdle /\ RateInit /\ ErrIdle
NextRate ==
    \/ Tick
    \/ \E n \in LimitNames, c \in Contexts, p \in JitterPercents : CheckLimit(n, c, p)
    \/ \E n \in LimitNames, skipIf \in BOOLEAN, c \in Contexts, p \in JitterPercents : Request(n, skipIf, c, p)
SpecRate == InitRate /\ [][NextRate]_vars

\* the token bucket with a burst pool of one or two times the primary pool
BurstConfigs ==
    [requests : 1..MaxRequests, window : {1}, strategy : {"token-bucket"},
     burst : {[enabled |-> TRUE, multiplier |-> m] : m \in 2..MaxMultiplier}, backoff : Backoffs]
InitBurst ==
    /\ now = StartMs /\ CacheIdle /\ ErrIdle
    /\ rlCfg \in BurstConfigs
    /\ bk = BackoffIdle /\ race = NoRace /\ dist = NoDist /\ metrics = NoMetrics /\ states = EmptyStore /\ rlRes = NoResult
    /\ admitLog = <<>> /\ winCalls = [start |-> 0, calls |-> 0] /\ req = NoRequest
NextBurst ==
    \/ Tick
    \/ \E c \in Contexts, p \in JitterPercents : CheckLimit(RegisteredName, c, p)
SpecBurst == InitBurst /\ [][NextBurst]_vars

\* calls of several contexts under a limit of one request per window
KeyConfigs ==
    {c \in RateLimitConfigs : c.requests = 1 /\ c.strategy = "fixed-window"
                              /\ c.burst = NoBurst /\ c.backoff = NoBackoff}
InitKeys == now = StartMs /\ CacheIdle /\ RateInit /\ rlCfg \in KeyConfigs /\ ErrIdle
NextKeys ==
    \/ Tick
    \/ \E c \in KeyContexts : CheckLimit(RegisteredName, c, 50)
SpecKeys == InitKeys /\ [][NextKeys]_vars

\* a distributed config, with and without a connected shared store
InitDist ==
    /\ now = StartMs /\ CacheIdle /\ ErrIdle
    /\ rlCfg \in {c \in RateLimitConfigs : c.requests = 1 /\ ~c.backoff.jitter}
    /\ bk = BackoffIdle /\ race = NoRace /\ states = EmptyStore /\ rlRes = NoResult
    /\ admitLog = <<>> /\ winCalls = [start |-> 0, calls |-> 0] /\ req = NoRequest
    /\ dist \in {[NoDist EXCEPT !.redis = r] : r \in BOOLEAN} /\ metrics = NoMetrics
NextDist ==
    \/ Tick
    \/ \E c \in Contexts, failRead \in BOOLEAN, failWrite \in BOOLEAN,
          p \in {50} :
          DistCheckLimit(c, failRead, failWrite, p)
    \/ \E pattern \in {NoPattern, RegisteredName, UnknownName}, fail \in BOOLEAN :
          ClearStates(pattern, fail)
SpecDist == InitDist /\ [][NextDist]_vars

\* the counters of the limiter under calls on one key and resets
InitMetrics == now = StartMs /\ CacheIdle /\ RateInit /\ rlCfg.requests = 1 /\ ErrIdle
NextMetrics ==
    \/ Tick
    \/ \E c \in Contexts, p \in JitterPercents : CountedCheckLimit(c, p)
    \/ ResetMetrics
SpecMetrics == InitMetrics /\ [][NextMetrics]_vars

\* search requests that succeed and that fail at the Spotify API, in any order
InitFallback == now = StartMs /\ CacheInit /\ setCount = 0 /\ lastSet = NoSet /\ gos = NoCalls
                /\ RateIdle /\ ErrIdle
NextFallback ==
    \/ Tick
    \/ SearchStored
    \/ \E operation \in Operations, requestId \in RequestIds : ApiFailure(operation, requestId)
SpecFallback == InitFallback /\ [][NextFallback]_vars

\* a caller that keeps calling checkLimit on one key while the clock keeps advancing, over
\* MaxLiveTicks clock steps
LiveEndMs == StartMs + MaxLiveTicks * TickMs
LiveTick ==
    /\ now + TickMs <= LiveEndMs
    /\ now' = now + TickMs
    /\ rlRes' = NoResult
    /\ UNCHANGED <<cacheVars, rlCfg, states, admitLog, winCalls, req, bk, race, dist, metrics, errVars>>
LiveCall == \E c \in Contexts, p \in JitterPercents : CheckLimit(RegisteredName, c, p)
InitLive == now = StartMs /\ CacheIdle /\ RateInit /\ rlCfg.requests = 1 /\ ErrIdle
NextLive == LiveTick \/ LiveCall
\* the count every checkLimit call makes: a step of NextLive changes winCalls exactly when it
\* is a call, and a call is possible whenever CallsLeft holds
CallCounted ==
    /\ CallsLeft
    /\ winCalls' = IF winCalls.start = WindowStartOf(now)
                    THEN [winCalls EXCEPT !.calls = @ + 1]
                    ELSE [start |-> WindowStartOf(now), calls |-> 1]
\* the clock is not stopped, and the caller does not stop calling while calls are left
SpecLive == InitLive /\ [][NextLive]_vars /\ WF_vars(LiveTick) /\ WF_winCalls(CallCounted)

\* one key under the auth backoff, denied MaxFailures times in a row
InitBackoff == now = StartMs /\ CacheIdle /\ BackoffInit /\ ErrIdle
NextBackoff == \E p \in BackoffPercents : DeniedCheck(p)
SpecBackoff == InitBackoff /\ [][NextBackoff]_vars

\* the in-process tier alone, with room for one or two entries
InitEvict ==
    /\ now = StartMs /\ RateIdle /\ ErrIdle
    /\ env = "server" /\ redis = FALSE /\ storage = FALSE
    /\ tiersCfg = [memory |-> TRUE, redis |-> FALSE, browser |-> FALSE]
    /\ maxEntries \in 1..MaxMaxEntries /\ defaultTtl = 1
    /\ mem = <<>> /\ redisStore = EmptyStore /\ browserStore = EmptyStore
    /\ cacheRes = NoCacheRes /\ setCount = 0 /\ lastSet = NoSet /\ gos = NoCalls
NextEvict ==
    \/ Tick
    \/ \E k \in Keys : TierSet(k)
    \/ \E k \in Keys : TierGet(k)
SpecEvict == InitEvict /\ [][NextEvict]_vars

\* overlapping set, get and delete calls of one key on a server with both tiers; redis is empty
\* or holds an entry of the key written before the process started
InitFlight ==
    /\ now = StartMs /\ RateIdle
    /\ env = "server" /\ redis = TRUE /\ storage = FALSE
    /\ tiersCfg = [memory |-> TRUE, redis |-> TRUE, browser |-> FALSE]
    /\ maxEntries = 1 /\ defaultTtl = 1
    /\ mem = <<>> /\ browserStore = EmptyStore
    /\ redisStore \in {EmptyStore, With(EmptyStore, Watched, StoreEntry(Watched, EarlierValue, OtherTtl, StartMs))}
    /\ cacheRes = NoCacheRes /\ setCount = 0 /\ lastSet = NoSet /\ gos = NoCalls
    /\ ErrIdle
NextFlight ==
    \/ Tick
    \/ \E c \in Setters : FlightSet(c)
    \/ FlightGet
    \/ FlightDelete
    \/ \E fail \in BOOLEAN : Answer(fail)
SpecFlight == InitFlight /\ [][NextFlight]_vars

\* overlapping checkLimit calls on one key at one clock reading, local and distributed state
InitRace ==
    /\ now = StartMs /\ CacheIdle /\ ErrIdle
    /\ rlCfg \in RateLimitConfigs
    /\ states = EmptyStore /\ rlRes = NoResult /\ admitLog = <<>>
    /\ winCalls = [start |-> 0, calls |-> 0] /\ req = NoRequest /\ bk = BackoffIdle
    /\ race \in {[NoRace EXCEPT !.distributed = d] : d \in BOOLEAN}
    /\ dist = NoDist /\ metrics = NoMetrics
NextRace ==
    \/ \E c \in RaceCallers : RaceRead(c)
    \/ \E c \in RaceCallers, p \in JitterPercents : RaceCheck(c, p)
SpecRace == InitRace /\ [][NextRace]_vars

InitErr == now = StartMs /\ CacheIdle /\ RateIdle /\ ErrInit
NextErr ==
    \/ \E id \in ErrIds, throwing \in SUBSET MayThrow : HandleError(id, throwing)
    \/ \E m \in Messages, throwing \in SUBSET MayThrow : HandleUntyped(m, throwing)
    \/ \E c \in Custom : addRecoveryStrategy(c)
SpecErr == InitErr /\ [][NextErr]_vars

InitSearch == now = StartMs /\ CacheIdle /\ RateIdle /\ ErrIdle
NextSearch ==
    \E cacheLive \in BOOLEAN, primary \in PrimaryCounts, related \in BOOLEAN, padding \in PaddingCounts :
        Search(cacheLive, primary, related, padding)
SpecSearch == InitSearch /\ [][NextSearch]_vars

----------------------------------------------------------------------------
(* Properties of the cache *)

TierOrder == <<"memory", "redis", "browser">>
TierRank(name) == CHOOSE i \in 1..Len(TierOrder) : TierOrder[i] = name
TierEnabled(name) == tiersCfg[name]
TierHolds(name, k) ==
    CASE name = "memory" -> MemHas(mem, k)
      [] name = "redis" -> k \in DOMAIN redisStore
      [] OTHER -> k \in DOMAIN browserStore
FasterTiers(name) ==
    {f \in {"memory", "redis", "browser"} : TierEnabled(f) /\ TierRank(f) < TierRank(name)}
FastestTier ==
    TierOrder[CHOOSE i \in 1..Len(TierOrder) :
                 /\ TierEnabled(TierOrder[i])
                 /\ \A j \in 1..(i - 1) : ~TierEnabled(TierOrder[j])]

\* the call that just returned is get(Watched), and the last write of Watched is a set still in force
WatchedGet == cacheRes.op = "get" /\ cacheRes.key = Watched /\ lastSet.live
\* when the entry of that set expires: with the ttl as passed, and with ttl || defaultTtl
ExpiryAsPassed == lastSet.at + lastSet.ttl * MsPerSec
ExpiryEffective == lastSet.at + effectiveTtl(lastSet.ttl) * MsPerSec

C1_AbsentReached == WatchedGet /\ ~lastSet.failed /\ now >= ExpiryEffective + MsPerSec /\ ~cacheRes.hit

\* C4 as stated: after any sequence of sets, same clock reading included, the in-process tier
\* holds at most maxEntries entries.
C4_MemoryBound == Len(mem) <= maxEntries

\* the call that just returned is a get served by a tier that has an enabled tier before it
SlowerHit == cacheRes.op = "get" /\ cacheRes.hit /\ FasterTiers(cacheRes.tier) # {}
\* what get(key) returns when it is called again at once
NextGet == CacheManagerGet(cacheRes.key, FALSE, now)

\* C10 as stated: after a get served by a slower tier the entry is present in every faster tier,
\* and the next get of the key is served by the fastest tier without a call to a slower one.
C10_AsStated ==
    SlowerHit =>
        /\ \A f \in FasterTiers(cacheRes.tier) : TierHolds(f, cacheRes.key)
        /\ NextGet.hit /\ NextGet.tier = FastestTier /\ NextGet.consulted = {FastestTier}

\* C10: after a get served by a slower tier of a store whose in-process tier is enabled, the
\* entry is present in the in-process tier, and the next get of the key is served by the
\* in-process tier without a call to any slower tier.
C10_Promotion ==
    (SlowerHit /\ tiersCfg.memory) =>
        /\ MemHas(mem, cacheRes.key)
        /\ NextGet.hit /\ NextGet.value = cacheRes.value
        /\ NextGet.tier = "memory" /\ NextGet.consulted = {"memory"}

C10_Witness == SlowerHit /\ tiersCfg.memory /\ cacheRes.tier = "browser" /\ MemHas(mem, cacheRes.key)

----------------------------------------------------------------------------
(* Properties of the rate limiter *)

\* the call that just returned is a checkLimit that produced a result
Checked == rlRes.kind = "result"
TokenBucketNoBurst == rlCfg.strategy = "token-bucket" /\ ~rlCfg.burst.enabled
SlidingWindow == rlCfg.strategy = "sliding-window"
FixedWindowNoBackoff == rlCfg.strategy = "fixed-window" /\ ~rlCfg.backoff.enabled
\* the stored history of every key holds at most `requests` timestamps
HistoryBounded == \A key \in DOMAIN states : Len(states[key].requestHistory) <= rlCfg.requests
\* the stored history of the key just checked holds only timestamps newer than now - window
HistoryPruned ==
    \A i \in DOMAIN states[rlRes.key].requestHistory :
        states[rlRes.key].requestHistory[i] > now - rlCfg.window * MsPerSec

\* C2 as stated: whenever checkLimit returns allowed = false the middleware rejects the request
\* with a 429 and the route handler's later steps do not run.
C2_DeniedIsRejected == (req.checked /\ req.denied) => (req.status = 429 /\ ~req.handlerRan)

\* C5 as stated: token bucket with burst disabled: the admissions of one key within any
\* interval of `window` seconds are at most `requests`.
C5_AsStated == TokenBucketNoBurst => Len(admitLog) <= rlCfg.requests

\* C5: token bucket with burst disabled: the admissions of one key within any interval of
\* `window` seconds are at most 2 * requests - 1 (a full bucket, and the refill of the interval).
C5_TokenBucket == TokenBucketNoBurst => Len(admitLog) <= 2 * rlCfg.requests - 1

C5_Witness ==
    /\ TokenBucketNoBurst /\ Checked /\ rlRes.allowed
    /\ rlCfg.requests > 1 /\ Len(admitLog) = 2 * rlCfg.requests - 1

\* C6 as stated: sliding window: the admissions of one key within the trailing window never
\* exceed `requests`, and after every check the stored requestHistory holds only timestamps
\* newer than now - window and at most `requests` of them.
C6_AsStated ==
    SlidingWindow =>
        /\ Len(admitLog) <= rlCfg.requests
        /\ HistoryBounded
        /\ Checked => HistoryPruned

\* C6: sliding window: the admissions of one key within the trailing window never exceed
\* `requests`, the stored requestHistory never holds more than `requests` timestamps, and after
\* every check that is not cut short by an active backoff it holds only timestamps newer than
\* now - window.
C6_SlidingWindow ==
    SlidingWindow =>
        /\ Len(admitLog) <= rlCfg.requests
        /\ HistoryBounded
        /\ (Checked /\ ~rlRes.skipped) => HistoryPruned

C6_Witness ==
    /\ SlidingWindow /\ Checked /\ ~rlRes.skipped /\ ~rlRes.allowed
    /\ Len(admitLog) = rlCfg.requests /\ HistoryPruned
    /\ states[rlRes.key].requestHistory[1] < now

\* C7: fixed window without backoff: within one aligned window exactly the first `requests`
\* checkLimit calls of a key are admitted, every later call is denied with retryAfter > 0, and
\* the first call of a later window finds the counter reset and is admitted.
C7_FixedWindow ==
    (FixedWindowNoBackoff /\ Checked) =>
        /\ rlRes.allowed <=> winCalls.calls <= rlCfg.requests
        /\ ~rlRes.allowed => rlRes.retryAfter > 0
        /\ states[rlRes.key].tokens = Min(winCalls.calls, rlCfg.requests)
        /\ states[rlRes.key].lastRefill = winCalls.start

C7_Witness ==
    /\ FixedWindowNoBackoff /\ Checked /\ ~rlRes.allowed /\ rlRes.retryAfter > 0
    /\ winCalls.calls = rlCfg.requests + 1
    /\ winCalls.start > WindowStartOf(StartMs)

\* reachability of the last part of C7: the first call of a window that follows an exhausted one
C7_ResetReached ==
    /\ FixedWindowNoBackoff /\ Checked /\ rlRes.allowed /\ winCalls.calls = 1
    /\ rlRes.remaining = rlCfg.requests /\ Len(admitLog) > 1

\* C9 as stated: checkLimit never raises: for every name, registered or not, and every context
\* it returns a result.
C9_AsStated == rlRes.kind # "raised"

\* C9: checkLimit returns a result without raising for every context under a registered name,
\* and raises RateLimitError with code CONFIG_NOT_FOUND under a name that has no config.
C9_CheckLimitRaises ==
    rlRes.kind # "none" =>
        /\ rlRes.name = RegisteredName => rlRes.kind = "result"
        /\ rlRes.name # RegisteredName => rlRes.kind = "raised" /\ rlRes.code = "CONFIG_NOT_FOUND"

C9_Witness == rlRes.kind = "raised" /\ rlRes.name = UnknownName /\ rlRes.code = "CONFIG_NOT_FOUND"

----------------------------------------------------------------------------
(* Properties of the error handler *)

\* C3 as stated: for every error and every outcome of the recover calls, handleError completes
\* by returning an object with finalError populated; it never throws or rejects.
C3_AlwaysReturns == heRes.kind # "none" => (heRes.kind = "returned" /\ heRes.finalError)

\* C8: over any sequence of handleError calls with the same AppError instance, whatever the
\* registered strategies and whether they succeed or throw, the instance is passed to recover()
\* at most 3 times in total.
C8_RecoverCeiling == \A id \in ErrIds : recoverCalls[id] <= MaxRecoveryAttempts

C8_Witness ==
    \E id \in ErrIds :
        /\ recoverCalls[id] = MaxRecoveryAttempts
        /\ heRes.error = id /\ heRes.called # <<>>
        /\ Len(recoveryStrategies) > Len(BuiltIn)

----------------------------------------------------------------------------
(* Properties of CacheManager under tier failures, and of delete, clear, exists, getOrSet *)

\* the tier holds the key with this value
MemHolds(k, v) == MemHas(mem, k) /\ mem[MemIndex(mem, k)].value = v
RedisHolds(k, v) == k \in DOMAIN redisStore /\ redisStore[k].value = v
BrowserHolds(k, v) == k \in DOMAIN browserStore /\ browserStore[k].value = v
\* the call that just returned is a set
SetDone == cacheRes.op = "set"

\* C11: set attempts the write on every enabled tier; a failed write in one tier neither keeps
\* the other tiers from being written nor makes set raise, and when set returns the fastest
\* tier holds the new value whenever its own write succeeded.
C11_SetSurvivesTierFailure ==
    SetDone =>
        /\ ~cacheRes.raised
        /\ tiersCfg.memory => MemHolds(cacheRes.key, cacheRes.value)
        /\ (tiersCfg.redis /\ redis /\ ~cacheRes.failed) => RedisHolds(cacheRes.key, cacheRes.value)
        /\ (tiersCfg.browser /\ storage /\ ~cacheRes.failed)
               => BrowserHolds(cacheRes.key, cacheRes.value)

C11_Witness ==
    /\ SetDone /\ cacheRes.failed /\ ~cacheRes.raised
    /\ tiersCfg.memory /\ tiersCfg.redis /\ redis
    /\ MemHolds(cacheRes.key, cacheRes.value)
    /\ ~RedisHolds(cacheRes.key, cacheRes.value)

\* the tiers get consults: all enabled tiers on a miss, those up to the serving tier on a hit
EnabledTiers == {n \in {"memory", "redis", "browser"} : TierEnabled(n)}
TiersUpTo(name) == {n \in EnabledTiers : TierRank(n) <= TierRank(name)}
\* the tier's backing store answered the call that just returned
TierWorked(name) ==
    CASE name = "memory" -> TRUE
      [] name = "redis" -> redis /\ ~cacheRes.failed
      [] OTHER -> storage /\ ~cacheRes.failed
\* the value the tier holds for the key
TierValue(name, k) ==
    CASE name = "memory" -> mem[MemIndex(mem, k)].value
      [] name = "redis" -> redisStore[k].value
      [] OTHER -> browserStore[k].value
GetDone == cacheRes.op = "get"

\* C12: a tier that fails during get never aborts the lookup: the remaining tiers are consulted
\* in priority order, a live entry in a tier that still works is returned, and with no such
\* entry get returns absent without raising.
C12_GetSurvivesTierFailure ==
    GetDone =>
        /\ ~cacheRes.raised
        /\ cacheRes.hit =>
               /\ cacheRes.tier \in EnabledTiers /\ TierWorked(cacheRes.tier)
               /\ cacheRes.consulted = TiersUpTo(cacheRes.tier)
               /\ TierHolds(cacheRes.tier, cacheRes.key)
               /\ TierValue(cacheRes.tier, cacheRes.key) = cacheRes.value
        /\ ~cacheRes.hit =>
               /\ cacheRes.consulted = EnabledTiers
               /\ \A n \in EnabledTiers : TierWorked(n) => ~TierHolds(n, cacheRes.key)

\* a get whose redis tier threw: every enabled tier was consulted and get came back absent
\* without raising, though redis holds the key
C12_Witness ==
    /\ GetDone /\ cacheRes.failed /\ tiersCfg.redis /\ redis /\ ~cacheRes.hit /\ ~cacheRes.raised
    /\ cacheRes.consulted = EnabledTiers /\ cacheRes.key \in DOMAIN redisStore

\* a get with a failing storage driver served by the tier before it
C12_ServedReached ==
    /\ GetDone /\ cacheRes.failed /\ tiersCfg.redis /\ redis
    /\ cacheRes.hit /\ cacheRes.tier = "memory"

\* some enabled tier holds the key
HeldSomewhere(k) == \E n \in EnabledTiers : TierHolds(n, k)

\* C13 as stated: delete(key) removes the key from every tier and returns true if at least one
\* tier held it and false if none held it; afterwards no tier holds the key.
C13_DeleteReportsHeld ==
    [][\A k \in Keys : Delete(k, FALSE) =>
           /\ cacheRes'.ok <=> HeldSomewhere(k)
           /\ ~HeldSomewhere(k)']_vars

ClearDone == cacheRes.op = "clear"

\* C14 as stated: clear(pattern) removes from every tier all entries whose key matches the
\* pattern (all entries when it is omitted); afterwards get(key) returns absent for every
\* matching key, in every tier configuration, the shared network tier included.
C14_ClearRemovesMatching ==
    (ClearDone /\ ~cacheRes.failed) =>
        \A k \in Keys : Matches(cacheRes.key, k) =>
            /\ ~HeldSomewhere(k)
            /\ ~CacheManagerGet(k, FALSE, now).hit

\* some enabled tier holds an entry of the key that isExpired does not reject
LiveSomewhere(k) ==
    \/ tiersCfg.memory /\ MemHas(mem, k) /\ ~isExpired(mem[MemIndex(mem, k)], now)
    \/ tiersCfg.redis /\ k \in DOMAIN redisStore /\ ~isExpired(redisStore[k], now)
    \/ tiersCfg.browser /\ k \in DOMAIN browserStore /\ ~isExpired(browserStore[k], now)

\* C15: exists(key) returns true exactly when some tier holds a non-expired entry for the key,
\* and changes nothing: the content of every tier (lastAccessed included) and the hit and miss
\* counters are as before the call.
C15_ExistsIsPure ==
    [][\A k \in Keys : Exists(k, FALSE) =>
           /\ cacheRes'.ok <=> LiveSomewhere(k)
           /\ mem' = mem /\ redisStore' = redisStore /\ browserStore' = browserStore
           /\ ~cacheRes'.counted]_vars

\* exists answered true, and exists answered false for a key whose expired entry is still stored
C15_Witness ==
    /\ cacheRes.op = "exists" /\ cacheRes.ok /\ LiveSomewhere(cacheRes.key)
    /\ tiersCfg.memory /\ MemHas(mem, cacheRes.key)
    /\ mem[MemIndex(mem, cacheRes.key)].lastAccessed < now

C15_ExpiredReached ==
    /\ cacheRes.op = "exists" /\ ~cacheRes.ok /\ HeldSomewhere(cacheRes.key)
    /\ ~LiveSomewhere(cacheRes.key)

\* C16: one call of getOrSet invokes its factory zero times when get(key) hits and exactly once
\* when it misses, then stores the produced value under the key and returns it; overlapping
\* calls for one key are not deduplicated: each of them invokes its own factory on a miss.
C16_FactoryOncePerMiss ==
    \A c \in Callers :
        /\ gos[c].calls <= 1
        /\ gos[c].pc = "factory" => ~gos[c].hit /\ gos[c].calls = 0
        /\ gos[c].pc = "store" => ~gos[c].hit /\ gos[c].calls = 1
        /\ (gos[c].pc = "done" /\ gos[c].hit) => gos[c].calls = 0 /\ gos[c].ret \in Values
        /\ (gos[c].pc = "done" /\ ~gos[c].hit) =>
               /\ gos[c].calls = 1 /\ gos[c].ret = Produced(c) /\ gos[c].stored

\* two calls overlapped on a miss and each ran its factory
C16_Witness ==
    /\ \A c \in Callers : gos[c].pc = "done" /\ ~gos[c].hit /\ gos[c].calls = 1 /\ gos[c].stored
    /\ gos["c1"].ret # gos["c2"].ret

\* a call served from the cache without running its factory
C16_HitReached == \E c \in Callers : gos[c].pc = "done" /\ gos[c].hit /\ gos[c].calls = 0

----------------------------------------------------------------------------
(* Properties of the backoff delays *)

\* the first consecutiveFailures whose exponential delay is maxDelay (1000 * 2^6 > 60000)
SaturationAttempt ==
    CHOOSE n \in 1..MaxFailures :
        /\ AuthBaseDelay * Pow2(n - 1) >= AuthMaxDelay
        /\ \A m \in 1..(n - 1) : AuthBaseDelay * Pow2(m - 1) < AuthMaxDelay
Denied == bk.state.consecutiveFailures >= 1

\* C17 as stated: under exponential backoff with baseDelay 1000 and maxDelay 60000 the delays of
\* successive denied calls (consecutiveFailures 1, 2, 3, ...) are non-decreasing, reach maxDelay
\* and stay there.
C17_AsStated ==
    Denied =>
        /\ bk.state.delay >= bk.state.prev
        /\ bk.state.consecutiveFailures >= SaturationAttempt => bk.state.delay = AuthMaxDelay

\* C17: with jitter off the delays are non-decreasing, reach maxDelay at the seventh denial
\* and stay there; with jitter on (as in CommonRateLimits.auth) every delay is at most maxDelay
\* and, from the seventh denial on, at least half of maxDelay, and the sequence may decrease.
C17_BackoffDelays ==
    Denied =>
        /\ ~bk.backoff.jitter =>
               /\ bk.state.delay >= bk.state.prev
               /\ bk.state.consecutiveFailures >= SaturationAttempt => bk.state.delay = AuthMaxDelay
        /\ bk.backoff.jitter =>
               /\ bk.state.delay <= AuthMaxDelay
               /\ bk.state.consecutiveFailures >= SaturationAttempt
                      => 2 * bk.state.delay >= AuthMaxDelay
        /\ bk.state.backoffUntil = now + bk.state.delay

C17_Witness ==
    /\ ~bk.backoff.jitter /\ bk.state.consecutiveFailures = MaxFailures
    /\ bk.state.delay = AuthMaxDelay /\ bk.state.prev = AuthMaxDelay

\* with jitter on, a denial past saturation with a smaller delay than the one before
C17_JitterDecreases ==
    /\ bk.backoff.jitter /\ bk.state.consecutiveFailures > SaturationAttempt
    /\ bk.state.delay < bk.state.prev

----------------------------------------------------------------------------
(* Properties of normalizeError *)

\* the call that just returned is handleError of an untyped Error
UntypedHandled == heRes.error = "untyped"
NetworkPhrasing(m) == "fetch failed" \in m \/ "network" \in m \/ "timeout" \in m
AuthPhrasing(m) == "401" \in m \/ "unauthorized" \in m
RateLimitPhrasing(m) == "429" \in m \/ "rate limit" \in m

\* C18 as stated: normalizeError classifies an untyped error by its message: network or timeout
\* phrasing gives network, 401/unauthorized phrasing gives auth, 429 or "rate limit" phrasing
\* gives rate_limit with retryable = true, every other message gives system, retryable = false.
C18_Classification ==
    UntypedHandled =>
        LET m == heRes.message IN
        /\ NetworkPhrasing(m) => heRes.category = "network"
        /\ (AuthPhrasing(m) /\ ~NetworkPhrasing(m)) => heRes.category = "auth"
        /\ (RateLimitPhrasing(m) /\ ~AuthPhrasing(m) /\ ~NetworkPhrasing(m))
               => heRes.category = "rate_limit" /\ heRes.retryable
        /\ (~RateLimitPhrasing(m) /\ ~AuthPhrasing(m) /\ ~NetworkPhrasing(m))
               => heRes.category = "system" /\ ~heRes.retryable

----------------------------------------------------------------------------
(* Properties of the rate-limit headers *)

LimitHeaders == {"X-RateLimit-Limit", "X-RateLimit-Remaining", "X-RateLimit-Reset"}
DeniedResult == rlRes.kind = "result" /\ ~rlRes.allowed

\* C19 as stated: every checkLimit result with allowed = false carries a Retry-After header
\* alongside X-RateLimit-Limit, X-RateLimit-Remaining and X-RateLimit-Reset, for each of the
\* three strategies and for the backoff path.
C19_DeniedHasRetryAfter ==
    DeniedResult => ("Retry-After" \in rlRes.headers /\ LimitHeaders \subseteq rlRes.headers)

----------------------------------------------------------------------------
(* Properties of POST /api/spotify/search *)

\* C20 as stated: a successful response always contains exactly 50 playlists: a longer result
\* list is trimmed to 50, and a primary search that finds fewer than 50 is padded with
\* related-genre playlists up to 50.
C20_ExactlyFifty ==
    /\ srch.kind = "success" => srch.count = PlaylistLimit
    /\ (srch.kind # "none" /\ ~srch.cacheHit /\ srch.primary < PlaylistLimit)
           => srch.kind = "success" /\ srch.count = PlaylistLimit

----------------------------------------------------------------------------
(* Properties of overlapping calls *)

\* C21 as stated: for any interleaving of concurrent checkLimit calls on one key, distributed
\* state included, the number of admitted calls never exceeds what the same calls are granted
\* when executed one after another.
C21_NoOverAdmission == race.admitted <= race.seqAdmitted

----------------------------------------------------------------------------
(* Properties of overlapping cache calls *)

SetsDone == \A c \in Setters : flight.pc[c] = "done"
OnlySets == flight.pc["g"] = "idle" /\ flight.pc["d"] = "idle"

\* C22 as stated: when two set calls of one key overlap on a store with more than one tier, then
\* after both have completed every tier holds the value of the same one of the two calls.
C22_SameCallEverywhere ==
    (SetsDone /\ OnlySets) =>
        \E c \in Setters :
            /\ MemHas(mem, Watched) /\ mem[MemIndex(mem, Watched)].value = ValueOf(c)
            /\ Watched \in DOMAIN redisStore /\ redisStore[Watched].value = ValueOf(c)

\* a get of the key would return a value: a tier holds an entry of it that has not expired
Returnable ==
    \/ MemHas(mem, Watched) /\ ~isExpired(mem[MemIndex(mem, Watched)], now)
    \/ Watched \in DOMAIN redisStore /\ ~isExpired(redisStore[Watched], now)

\* C23 as stated: once delete(key) has returned, get(key) returns absent until the next set(key),
\* also when a get(key) was in flight while the delete ran (no storage request having thrown).
C23_DeletedStaysAbsent == (flight.deleted /\ ~flight.threw) => ~Returnable

----------------------------------------------------------------------------
(* Properties of the backoff gate and of the backoff update *)

\* a checkLimit call was made on a key whose backoff period was running
GatedCall ==
    /\ winCalls' # winCalls
    /\ rlRes'.kind = "result"
    /\ rlRes'.key \in DOMAIN states
    /\ states[rlRes'.key].backoffUntil # 0
    /\ now < states[rlRes'.key].backoffUntil

\* C24: while now < backoffUntil every checkLimit on the key returns allowed = false without
\* running the admission algorithm and leaves the key's state (tokens, lastRefill,
\* requestHistory, burstTokens, consecutiveFailures, backoffUntil) as it was.
C24_GateLeavesState ==
    [][GatedCall => (~rlRes'.allowed /\ rlRes'.skipped /\ rlRes'.remaining = 0 /\ states' = states)]_vars

C24_Witness ==
    /\ rlRes.kind = "result" /\ rlRes.skipped /\ ~rlRes.allowed
    /\ states[rlRes.key].consecutiveFailures >= 1
    /\ now < states[rlRes.key].backoffUntil

StateBefore(key) == IF key \in DOMAIN states THEN states[key] ELSE FreshState

\* a step that gave the key a backoffUntil it did not have
BackoffSet(key) ==
    /\ states'[key].backoffUntil # 0
    /\ states'[key].backoffUntil # StateBefore(key).backoffUntil

\* C25: every admitted checkLimit leaves consecutiveFailures = 0 and backoffUntil cleared, the
\* first denial after an admission computes its delay from n = 1, and backoffUntil is only ever
\* set by a denied check on a config with backoff.enabled.
C25_AdmissionResetsBackoff ==
    /\ []((rlRes.kind = "result" /\ rlRes.allowed) =>
             /\ states[rlRes.key].consecutiveFailures = 0
             /\ states[rlRes.key].backoffUntil = 0)
    /\ [][\A key \in DOMAIN states' :
             BackoffSet(key) =>
                /\ rlRes'.kind = "result" /\ rlRes'.key = key
                /\ ~rlRes'.allowed /\ ~rlRes'.skipped
                /\ rlCfg.backoff.enabled
                /\ StateBefore(key).consecutiveFailures = 0 =>
                      /\ states'[key].consecutiveFailures = 1
                      /\ \E p \in JitterPercents :
                            states'[key].backoffUntil =
                                now + calculateDelay(1, rlCfg.backoff.strategy, rlCfg.backoff.baseDelay,
                                                     rlCfg.backoff.maxDelay, rlCfg.backoff.jitter, p)]_vars

\* the first denial after an admission: one failure counted, the backoff period running
C25_Witness ==
    /\ rlRes.kind = "result" /\ ~rlRes.allowed /\ ~rlRes.skipped
    /\ rlCfg.backoff.enabled /\ admitLog # <<>>
    /\ states[rlRes.key].consecutiveFailures = 1
    /\ states[rlRes.key].backoffUntil > now

----------------------------------------------------------------------------
(* Properties of the recovery loop *)

\* the last handleError call invoked recover() and no invoked strategy succeeded
RecoverThrew == heRes.kind # "none" /\ heRes.called # <<>> /\ heRes.strategy = ""

\* C26 as stated: when recover() of a matching strategy throws, attemptRecovery counts a failed
\* attempt and goes on to the next matching strategy; when none succeeds handleError returns
\* recovered = false (and counts a recovery failure).
C26_ThrowGoesOn ==
    RecoverThrew => (heRes.kind = "returned" /\ ~heRes.recovered /\ heRes.finalError
                     /\ heRes.recoveryFailures = 1)

\* position of a strategy in the list, and the error of the last handleError call as it was
\* when the call began
PositionOf(name) == CHOOSE i \in 1..Len(recoveryStrategies) : recoveryStrategies[i].name = name
AttemptsBefore ==
    IF heRes.error = "untyped" THEN 0 ELSE errs[heRes.error].recoveryAttempts - Len(heRes.called)
HandledError ==
    [category |-> heRes.category, retryable |-> heRes.retryable, recoveryAttempts |-> AttemptsBefore]
Eligible(i) ==
    /\ canRecover(recoveryStrategies[i], HandledError)
    /\ AttemptsBefore < recoveryStrategies[i].maxAttempts

\* C27: strategies are tried in registration order, the built-in ones first and the added ones
\* after them; the strategy invoked is the first whose canRecover is true and for which
\* recoveryAttempts < maxAttempts; no strategy is invoked after one has returned successfully.
C27_FirstEligibleInvoked ==
    /\ SubSeq(recoveryStrategies, 1, Len(BuiltIn)) = BuiltIn
    /\ heRes.called # <<>> =>
          /\ Eligible(PositionOf(heRes.called[1]))
          /\ \A j \in 1..(PositionOf(heRes.called[1]) - 1) : ~Eligible(j)
          /\ \A j \in 1..(Len(heRes.called) - 1) :
                PositionOf(heRes.called[j]) < PositionOf(heRes.called[j + 1])
          /\ heRes.recovered => heRes.strategy = heRes.called[Len(heRes.called)]

\* an added strategy was invoked and succeeded, a built-in one that matches the error having
\* used up its attempts
C27_Witness ==
    /\ heRes.called # <<>> /\ heRes.recovered
    /\ PositionOf(heRes.called[1]) > Len(BuiltIn)
    /\ \E j \in 1..Len(BuiltIn) : canRecover(recoveryStrategies[j], HandledError)

\* C28: for an error with retryable = false handleError invokes no recover(), leaves
\* recoveryAttempts as it was, adds to neither recoverySuccess nor recoveryFailures and returns
\* recovered = false.
C28_NonRetryableUntouched ==
    /\ []((heRes.kind # "none" /\ ~heRes.retryable) =>
             /\ heRes.kind = "returned" /\ ~heRes.recovered /\ heRes.finalError
             /\ heRes.called = <<>>
             /\ heRes.recoverySuccess = 0 /\ heRes.recoveryFailures = 0)
    /\ [][\A id \in ErrIds :
             ~errs[id].retryable =>
                 /\ errs'[id].recoveryAttempts = errs[id].recoveryAttempts
                 /\ recoverCalls'[id] = recoverCalls[id]]_vars

\* a non-retryable error of a category a registered strategy recovers was handled
C28_Witness ==
    /\ heRes.kind = "returned" /\ ~heRes.retryable /\ heRes.called = <<>>
    /\ \E i \in 1..Len(recoveryStrategies) :
          recoveryStrategies[i].category \in {heRes.category, "any"}

----------------------------------------------------------------------------
(* Properties of expiry during lookup and of promotion *)

\* when the tier's entry of the key expires
TierExpiresAt(name, k) ==
    CASE name = "memory" -> mem[MemIndex(mem, k)].expiresAt
      [] name = "redis" -> redisStore[k].expiresAt
      [] OTHER -> browserStore[k].expiresAt

\* C29: get never returns the value of an entry with now > expiresAt, in any tier; an expired
\* entry met during the lookup is deleted from its tier and the lookup goes on to the next tier.
C29_NoExpiredValue ==
    GetDone =>
        /\ cacheRes.hit =>
               /\ TierHolds(cacheRes.tier, cacheRes.key)
               /\ TierValue(cacheRes.tier, cacheRes.key) = cacheRes.value
               /\ now <= TierExpiresAt(cacheRes.tier, cacheRes.key)
        /\ \A n \in cacheRes.consulted :
               (TierWorked(n) /\ TierHolds(n, cacheRes.key)) => now <= TierExpiresAt(n, cacheRes.key)
        /\ ~cacheRes.hit => cacheRes.consulted = EnabledTiers

\* a get past the expiry of a set that every tier took: it returned absent, went through all
\* the tiers and left the key in none of them
C29_Witness ==
    /\ WatchedGet /\ ~cacheRes.hit /\ ~cacheRes.failed /\ ~lastSet.failed /\ ~lastSet.evicted
    /\ now > ExpiryEffective
    /\ Cardinality(EnabledTiers) >= 2 /\ cacheRes.consulted = EnabledTiers
    /\ \A n \in EnabledTiers : ~TierHolds(n, Watched)

\* the call that just returned is a get served by a slower tier and copied to the in-process tier
PromotedToMemory == SlowerHit /\ tiersCfg.memory /\ MemHas(mem, cacheRes.key)
CopyExpiresAt == TierExpiresAt("memory", cacheRes.key)
SourceExpiresAt == TierExpiresAt(cacheRes.tier, cacheRes.key)

\* C30 as stated: the copy written to a faster tier by promoteToHigherTiers has an expiresAt that
\* is never later than the expiresAt of the entry it was promoted from.
C30_AsStated == PromotedToMemory => CopyExpiresAt <= SourceExpiresAt

\* C30: the copy written to a faster tier by promoteToHigherTiers expires no earlier than the
\* entry it was promoted from and less than one second after it (the remaining time is rounded
\* up to whole seconds).
C30_RemainingTtlRoundedUp ==
    PromotedToMemory =>
        /\ SourceExpiresAt <= CopyExpiresAt
        /\ CopyExpiresAt < SourceExpiresAt + MsPerSec

\* a promoted copy that outlives the entry it came from
C30_Witness == PromotedToMemory /\ CopyExpiresAt > SourceExpiresAt /\ now < SourceExpiresAt

----------------------------------------------------------------------------
(* Properties of eviction in the in-process tier *)

\* the entries of the in-process tier whose key the step removed
Evicted == {i \in 1..Len(mem) : ~MemHas(mem', mem[i].key)}
\* adding the key of the set would take the tier above maxEntries
OverCeiling == ~MemHas(mem, cacheRes'.key) /\ Len(mem) >= maxEntries

\* C31 as stated: a set evicts an entry only when adding the key would take the tier above
\* maxEntries, it then evicts exactly one entry, and the evicted entry has the oldest
\* lastAccessed among those present.
C31_StrictLru ==
    [][(setCount' = setCount + 1 /\ tiersCfg.memory) =>
          /\ Evicted # {} => OverCeiling
          /\ OverCeiling => Cardinality(Evicted) = 1
          /\ \A i \in Evicted : \A j \in 1..Len(mem) : mem[i].lastAccessed <= mem[j].lastAccessed]_vars

\* the first part of C31 alone: a set evicts only when the key is new and the tier is full
C31_EvictsOnlyWhenOver ==
    [][(setCount' = setCount + 1 /\ tiersCfg.memory /\ Evicted # {}) => OverCeiling]_vars

\* the tiers that hold an entry under a key embedding the tag
HoldingTiers(tag) ==
    {n \in {"memory", "redis", "browser"} :
        \E k \in Keys : Embeds(k, tag) /\
            \/ n = "memory" /\ MemHas(mem, k)
            \/ n = "redis" /\ k \in DOMAIN redisStore
            \/ n = "browser" /\ k \in DOMAIN browserStore}

\* C32: invalidateByTags(tags) removes, from every tier, the entries whose key embeds one of the
\* tags and returns how many were removed; after it returns no tier holds such an entry.
C32_TagsInvalidated ==
    [][cacheRes'.op = "invalidate" =>
        /\ cacheRes'.count = Cardinality(HoldingTiers(cacheRes'.key))
        /\ \A k \in Keys : Embeds(k, cacheRes'.key) =>
              /\ ~MemHas(mem', k)
              /\ k \notin DOMAIN redisStore'
              /\ k \notin DOMAIN browserStore']_vars


----------------------------------------------------------------------------
(* Properties of the stored entries *)

\* the call that just returned is a set that wrote the in-process tier
WroteMemory == cacheRes.op = "set" /\ tiersCfg.memory /\ MemHas(mem, cacheRes.key)

\* C33: every entry stored in a tier, written by set or by promotion, satisfies
\* expiresAt > createdAt; createdAt is the clock reading of the call that wrote it.
C33_ExpiresAfterCreated ==
    /\ WroteMemory => TierExpiresAt("memory", cacheRes.key) > now
    /\ PromotedToMemory => CopyExpiresAt > now

----------------------------------------------------------------------------
(* Properties of the burst pool *)

\* the size of the burst pool of the config
MaxBurstTokens == rlCfg.requests * rlCfg.burst.multiplier - rlCfg.requests
\* a checkLimit step that ran the token bucket of a config with burst enabled
BurstCheck ==
    /\ winCalls' # winCalls
    /\ rlRes'.kind = "result" /\ ~rlRes'.skipped
    /\ rlCfg.strategy = "token-bucket" /\ rlCfg.burst.enabled
\* the step admitted its request from the burst pool
BurstAdmission == states'[rlRes'.key].burstTokens # StateBefore(rlRes'.key).burstTokens

----------------------------------------------------------------------------
(* Properties of the key derivation *)

\* what the key is meant to tell apart: the discriminator (userId when present, else ip) and
\* the endpoint
Identity(context) ==
    [discriminator |-> IF context.userId # "" THEN <<"user", context.userId>>
                       ELSE IF context.ip # "" THEN <<"ip", context.ip>> ELSE <<>>,
     endpoint |-> context.endpoint]
\* a checkLimit that returns a result right after another one did
CallAfterCall == winCalls' # winCalls /\ rlRes.kind = "result" /\ rlRes'.kind = "result"

\* C35: two checkLimit calls on one config name work on the same state if and only if their
\* contexts have the same discriminator (userId when present, else ip) and the same endpoint.
C35_SameKeyIffSameIdentity ==
    [][CallAfterCall =>
          (rlRes'.key = rlRes.key <=> Identity(rlRes'.context) = Identity(rlRes.context))]_vars

\* the second half of C35 alone: a context with userId and ip is keyed by the userId, whatever
\* the ip
C35_UserIdWins ==
    [][CallAfterCall =>
          ((rlRes'.context.userId # "" /\ rlRes'.context.userId = rlRes.context.userId
            /\ rlRes'.context.endpoint = rlRes.context.endpoint) => rlRes'.key = rlRes.key)]_vars

----------------------------------------------------------------------------
(* Properties of a distributed config *)

\* a checkLimit step on the distributed config
DistCall == winCalls' # winCalls /\ rlRes'.kind # "none"
\* what the check gives on the state this.states held before the call
OnLocalState == CheckLimitCore(rlCfg, StateBefore(DistKey), now, dist'.call.percent)

\* C36: a failure to read or write the shared store during checkLimit does not reach the
\* caller: the call returns a result, a failed read has the check decided on the state of
\* this.states, and this.states holds the state the call produced also when the write failed.
C36_StoreFailureHidden ==
    [][(DistCall /\ (dist'.call.failedRead \/ dist'.call.failedWrite)) =>
          /\ rlRes'.kind = "result"
          /\ dist'.call.failedRead =>
                /\ rlRes'.allowed = OnLocalState.result.allowed
                /\ rlRes'.skipped = OnLocalState.skipped
                /\ states'[DistKey] = OnLocalState.state
          /\ dist'.call.failedWrite =>
                /\ dist'.shared = dist.shared
                /\ rlRes'.allowed => states'[DistKey].consecutiveFailures = 0
                /\ (~rlRes'.allowed /\ ~rlRes'.skipped /\ rlCfg.backoff.enabled) =>
                      states'[DistKey].backoffUntil > now]_vars

\* a call whose read failed while this.states and the shared store held different states
C36_Witness ==
    /\ rlRes.kind = "result" /\ dist.call.failedRead
    /\ dist.shared.present /\ now < dist.shared.until
    /\ dist.shared.state # states[DistKey]
    /\ ~rlRes.allowed

\* C37: after clearStates has removed the state of a key, the next checkLimit on the key starts
\* from a fresh state: it is admitted by the strategy and leaves the state that a first call
\* leaves, also when the state had been written to the shared store.
C37_FreshAfterClear ==
    [][(DistCall /\ dist.cleared) =>
          /\ rlRes'.allowed /\ ~rlRes'.skipped
          /\ states'[DistKey] = CheckLimitCore(rlCfg, FreshState, now, 50).state]_vars

\* C37 without a connected shared store: the same, for the state of this.states alone
C37_FreshAfterLocalClear ==
    [][(DistCall /\ dist.cleared /\ ~dist.redis) =>
          /\ rlRes'.allowed /\ ~rlRes'.skipped
          /\ states'[DistKey] = CheckLimitCore(rlCfg, FreshState, now, 50).state]_vars

----------------------------------------------------------------------------
(* Properties of the counters *)

\* C38: between two resets totalRequests is the number of checkLimit calls that returned a
\* result, allowedRequests the number of those with allowed = true and blockedRequests the
\* number of those with allowed = false, the denials of the gate included.
C38_MetricsMatchCalls ==
    /\ metrics.totalRequests = metrics.results.allowed + metrics.results.denied
    /\ metrics.allowedRequests = metrics.results.allowed
    /\ metrics.blockedRequests = metrics.results.denied

\* the consequence drawn in C38: totalRequests = allowedRequests + blockedRequests
C38_TotalIsSum == metrics.totalRequests = metrics.allowedRequests + metrics.blockedRequests

----------------------------------------------------------------------------
(* Properties of the fallback to cached results *)

\* handleError has just answered for a failed request of the operation
FailedRequest(operation) == heRes.kind # "none" /\ heRes.error = operation /\ cacheRes.op # "set"
\* the result of an earlier successful search is still in the cache
EarlierResultCached == \E n \in EnabledTiers : TierHolds(n, SearchCacheKey) /\ now <= TierExpiresAt(n, SearchCacheKey)

\* C39: on an api error of a search whose earlier successful result is still cached, api-fallback
\* returns the cached result and handleError reports recovered = true; without a cached result
\* the recovery fails.
C39_FallbackServesCached ==
    FailedRequest("search-playlists") =>
        /\ EarlierResultCached => (heRes.kind = "returned" /\ heRes.recovered
                                   /\ heRes.strategy = "api-fallback")
        /\ ~EarlierResultCached => ~heRes.recovered

\* the other half of C39 alone: without a cached result handleError never reports a recovery
C39_NoResultNoRecovery ==
    (FailedRequest("search-playlists") /\ ~EarlierResultCached) => ~heRes.recovered

----------------------------------------------------------------------------
(* Properties of a caller that keeps calling *)

\* the call that just returned was denied, a window and the longest backoff delay before the
\* last window the clock reaches
DeniedInTime ==
    /\ rlRes.kind = "result" /\ ~rlRes.allowed
    /\ now + rlCfg.window * MsPerSec + rlCfg.backoff.maxDelay
          <= (LiveEndMs \div (rlCfg.window * MsPerSec)) * (rlCfg.window * MsPerSec)
Admitted == rlRes.kind = "result" /\ rlRes.allowed

\* C40: for every strategy and every backoff config, when the clock keeps advancing and the
\* caller keeps calling checkLimit on the key, a denied call is followed by an admitted one.
C40_DenialNotPermanent == DeniedInTime ~> Admitted

\* a call denied by the gate of the longest backoff
C40_Witness ==
    /\ DeniedInTime /\ rlRes.skipped
    /\ rlCfg.backoff.strategy = "exponential"
    /\ states[rlRes.key].consecutiveFailures >= 1

====
